---- MODULE Spec2Model ----
(***************************************************************************)
(* A model of the sequencer package: SequenceItem (sequencer_item.py) and  *)
(* Sequence (sequencer.py).                                                *)
(*                                                                         *)
(* Python objects are records that carry an object identity `oid`.  Two    *)
(* records with the same oid are the same Python object: a mutation of an  *)
(* object rewrites every place that holds it (Mutate).  A path is a record *)
(* of its non-digit text `name` and its digit run `digits`, a tuple of     *)
(* decimal digits, so that formatting and parsing are computed.            *)
(***************************************************************************)
EXTENDS Integers, Sequences, FiniteSets, TLC

VARIABLES seq, other, last

vars == <<seq, other, last>>

(***************************************************************************)
(* Bounds of the model.                                                    *)
(***************************************************************************)
MaxVal == 2
MaxNodes == 5
MaxOtherNodes == 3
MaxRangeNodes == 4
MaxRangeSeqNodes == 2
MaxRangeNested == 1
MaxRangeInt == 1
MinPadVal == 9
MaxPadVal == 11
BigVal == 100
MaxPad == 3
MaxPadNodes == 5
MaxTypePad == 2
MaxItemVal == 12
MaxItemPad == 2
MaxUdimVal == 12
MaxUdimWidth == 10
MaxUdimX == 1
MaxListVal == 3
MaxListPad == 2
MaxListLen == 3
MaxAddVal == 12
MaxAddNodes == 4
MaxEditVal == 2
MaxEditNodes == 6
MaxAtomNodes == 4
MaxIndent == 3
MaxIndentNodes == 5
MaxIndentVal == 3
MaxRaiseIndent == 1
MaxOrderEnd == 1
MaxNotationPad == 2
MaxNotationNodes == 4

Values == 0..MaxVal

(***************************************************************************)
(* Small helpers.                                                          *)
(***************************************************************************)
Max2(a, b) == IF a >= b THEN a ELSE b
Min2(a, b) == IF a <= b THEN a ELSE b

\* min() and max() of a non-empty list of ints.
SeqMin(vs) == CHOOSE v \in {vs[i] : i \in DOMAIN vs} :
                  \A i \in DOMAIN vs : v <= vs[i]

SeqMax(vs) == CHOOSE v \in {vs[i] : i \in DOMAIN vs} :
                  \A i \in DOMAIN vs : v >= vs[i]

\* The placeholder of an object that does not exist yet (Python None).
None == [k |-> "none"]

\* None where an int is expected: the default of a padding argument.
NoPadding == -1

RECURSIVE str_int(_)
\* str(value): the decimal digits of a non-negative int.
str_int(v) == IF v < 10 THEN <<v>> ELSE Append(str_int(v \div 10), v % 10)

RECURSIVE zfill(_, _)
\* digits.zfill(width): zeros on the left up to width, never truncating.
zfill(ds, w) == IF Len(ds) >= w THEN ds ELSE zfill(<<0>> \o ds, w)

RECURSIVE int_str(_)
\* int(digits): the value of a digit run.
int_str(ds) ==
    IF Len(ds) = 0 THEN 0
    ELSE 10 * int_str(SubSeq(ds, 1, Len(ds) - 1)) + ds[Len(ds)]

\* '{:0Nd}'.format(value)
format_int(pad, v) == zfill(str_int(v), pad)

\* The least object identity that is not in use.
FreshId(live) ==
    CHOOSE i \in 0..Cardinality(live) :
        i \notin live /\ \A j \in 0..(i - 1) : j \in live

RECURSIVE FreshIds(_, _)
\* The n least identities that are not in use, in increasing order.
FreshIds(live, n) ==
    IF n = 0 THEN <<>>
    ELSE LET i == FreshId(live) IN <<i>> \o FreshIds(live \cup {i}, n - 1)

\* list.insert(position, x), positions counted from 0 as in Python.
list_insert(lst, position, x) ==
    LET n == Len(lst)
        at == IF position < 0 THEN Max2(0, n + position) ELSE Min2(position, n)
    IN SubSeq(lst, 1, at) \o <<x>> \o SubSeq(lst, at + 1, n)

(***************************************************************************)
(* conversion.py: the pound notation.                                      *)
(***************************************************************************)
\* A pound template '<name>.##.tif' with pad '#' characters.
PoundTemplate(name, pad) == [name |-> name, type |-> "pound", pad |-> pad]

\* to_format_from_pound: '####' becomes '{:04d}'.
to_format_from_pound(template) == [name |-> template.name, pad |-> template.pad]

\* The other notations.  A template is its non-digit text `name`, the
\* notation `type` of its digit token and what the token writes: `pad`, the
\* number of '#' or the number written in '%<n>d' and '$F<n>', and, for
\* these two, `zeros`, the number of '0' characters written before it
\* ('%04d' has pad 4 and zeros 1, '%4d' has pad 4 and zeros 0).  The tokens
\* '*' and '<fnum>' write nothing: their pad is 0.
PercentTemplate(name, zeros, pad) ==
    [name |-> name, type |-> "percent", pad |-> pad, zeros |-> zeros]

DollarFTemplate(name, zeros, pad) ==
    [name |-> name, type |-> "dollar_f", pad |-> pad, zeros |-> zeros]

GlobTemplate(name) == [name |-> name, type |-> "glob", pad |-> 0]

AngularTemplate(name) == [name |-> name, type |-> "angular", pad |-> 0]

\* REPR_SEQUENCES: the 'type' and 'padding_case' of every notation.
REPR_SEQUENCES ==
    [key \in {"angular", "dollar_f", "glob", "percent", "pound"} |->
        [type |-> IF key = "angular" THEN "delimiter-<>" ELSE key,
         padding_case |-> IF key \in {"angular", "glob"}
                          THEN "insensitive" ELSE "sensitive"]]

\* make_pound, make_percent, make_dollar_f, make_glob, make_angular: the
\* token of a notation for a padding value ('####', '%4d', '$F4', '*',
\* '<fnum>').
make(key, value) ==
    IF key = "pound" THEN [type |-> key, pad |-> value]
    ELSE IF key \in {"percent", "dollar_f"}
    THEN [type |-> key, pad |-> value, zeros |-> 0]
    ELSE [type |-> key, pad |-> 0]

\* get_value_pound counts the '#'; get_value_glob and get_value_angular
\* return None; get_value_percent compiles a pattern that `re` rejects and
\* get_value_dollar_f reads a name that is not defined: both raise.
get_value(template) ==
    IF template.type = "pound" THEN [err |-> "", value |-> template.pad]
    ELSE IF template.type = "percent"
    THEN [err |-> "re.error", value |-> NoPadding]
    ELSE IF template.type = "dollar_f"
    THEN [err |-> "NameError", value |-> NoPadding]
    ELSE [err |-> "", value |-> NoPadding]

\* ''.join(make_alternating_list(non_digits, [token]))
join_template(name, token) ==
    IF "zeros" \in DOMAIN token
    THEN [name |-> name, type |-> token.type, pad |-> token.pad,
          zeros |-> token.zeros]
    ELSE [name |-> name, type |-> token.type, pad |-> token.pad]

\* to_format of every notation: '{:0Nd}' for a token that writes N, '{}'
\* for '*' and '<fnum>'.
to_format(template) ==
    IF template.type = "pound" THEN to_format_from_pound(template)
    ELSE [name |-> template.name, pad |-> template.pad]

\* conversion.get_dimensions: the number of placeholders of a format string.
get_dimensions(format_path) == 1

\* format_path.format(value)
format_path_format(format_path, v) ==
    [name |-> format_path.name, digits |-> format_int(format_path.pad, v)]

(***************************************************************************)
(* sequencer_item.py: SequenceItem.                                        *)
(***************************************************************************)
SequenceItem(path, oid) == [k |-> "item", oid |-> oid, path |-> path]

item_get_value(it) == int_str(it.path.digits)

item_get_padding(it) == Len(it.path.digits)

\* set_value keeps the width of the digit run, growing it when needed.
item_set_value(it, v) ==
    [it EXCEPT !.path.digits = format_int(Len(it.path.digits), v)]

\* A variant of set_padding that keeps the path.
item_keep_padding(it, p) == it

\* set_padding re-renders the value with the new width.
item_set_padding(it, p) ==
    [it EXCEPT !.path.digits = zfill(str_int(int_str(it.path.digits)), p)]

\* SequenceItem defines no __eq__: == is object identity.
item_eq(a, b) == a.oid = b.oid

(***************************************************************************)
(* sequencer_item.py: a SequenceItem whose path has any number of digit    *)
(* runs.  Its path is the tuple of parts that _split_delimiter gives: a    *)
(* part is either text (field s) or a run of decimal digits (field d).     *)
(* An int argument is the list of that int (check.force_itertype); a       *)
(* position is None or a list of indexes counted from 0.                   *)
(***************************************************************************)
TextPart(s) == [s |-> s, d |-> <<>>]

DigitPart(d) == [s |-> "", d |-> d]

\* part.isdigit()
isdigit(part) == part.d # <<>>

PartsItem(parts, oid) == [k |-> "item", oid |-> oid, path |-> [parts |-> parts]]

NoPosition == [none |-> TRUE, at |-> <<>>]

Position(at) == [none |-> FALSE, at |-> at]

\* get_digits(as_type=str): the digit runs of the path, in order.
parts_get_digits(it) ==
    LET runs == SelectSeq(it.path.parts, isdigit)
    IN [i \in DOMAIN runs |-> runs[i].d]

\* get_dimensions
parts_get_dimensions(it) == Len(parts_get_digits(it))

\* get_value: the list of the values of the digit runs (the code hands back
\* the int itself when there is one run).
parts_get_value(it) ==
    LET digits == parts_get_digits(it)
    IN [i \in DOMAIN digits |-> int_str(digits[i])]

\* make_value_position_iterable: positions 0, 1, ... for a position of None,
\* which demands one value per dimension.
make_value_position_iterable(value, position, dimensions) ==
    [err |-> IF position.none /\ Len(value) # dimensions
             THEN "ValueError" ELSE "",
     value |-> value,
     position |-> IF position.none THEN [i \in 1..Len(value) |-> i - 1]
                  ELSE position.at]

\* A variant of the assignment in set_value that writes the value unpadded.
set_digit_unpadded(digit_parts, index, value) ==
    [digit_parts EXCEPT ![index] = str_int(value)]

\* digit_parts[position_] = '{:0<len>d}'.format(value_), at the 1-based
\* index of the run.
set_digit(digit_parts, index, value) ==
    [digit_parts EXCEPT ![index] = format_int(Len(digit_parts[index]), value)]

RECURSIVE set_value_loop(_, _, _, _)
\* The izip loop of set_value from the n-th pair on: a position beyond the
\* runs raises IndexError; a negative position counts from the end.
set_value_loop(digit_parts, position, value, n) ==
    IF n > Len(position) \/ n > Len(value)
    THEN [err |-> "", digit_parts |-> digit_parts]
    ELSE LET dims == Len(digit_parts)
             at == position[n]
             index == IF at < 0 THEN dims + at + 1 ELSE at + 1
         IN IF index < 1 \/ index > dims
            THEN [err |-> "IndexError", digit_parts |-> digit_parts]
            ELSE set_value_loop(set_digit(digit_parts, index, value[n]),
                                position, value, n + 1)

\* set_value(value, position): the path is put together again from the text
\* parts and the new digit runs; nothing is stored when an error is raised.
parts_set_value(it, value, position) ==
    LET c == make_value_position_iterable(value, position,
                                          parts_get_dimensions(it))
        parts == it.path.parts
        r == set_value_loop(parts_get_digits(it), c.position, c.value, 1)
        rank(i) == Cardinality({j \in 1..i : isdigit(parts[j])})
        final_path == [i \in DOMAIN parts |->
                          IF isdigit(parts[i])
                          THEN DigitPart(r.digit_parts[rank(i)])
                          ELSE parts[i]]
    IN IF c.err # "" THEN [err |-> c.err, self |-> it]
       ELSE IF r.err # "" THEN [err |-> r.err, self |-> it]
       ELSE [err |-> "", self |-> [it EXCEPT !.path.parts = final_path]]

(***************************************************************************)
(* sequencer.py: Sequence.  A Sequence object is a record with its         *)
(* template, its children `items` (SequenceItems and nested Sequences) and *)
(* its start_item and end_item, which after an insert are two of the       *)
(* children themselves (same oid).                                         *)
(***************************************************************************)
RECURSIVE Ids(_)
\* Every object identity held, at any depth, by an object.
Ids(obj) ==
    IF obj.k = "item" THEN {obj.oid}
    ELSE IF obj.k = "seq"
    THEN {obj.oid} \cup Ids(obj.start_item) \cup Ids(obj.end_item)
         \cup UNION {Ids(obj.items[i]) : i \in DOMAIN obj.items}
    ELSE {}

RECURSIVE Mutate(_, _, _)
\* The heap after the object `oid` took the value new: every holder sees it.
Mutate(obj, oid, new) ==
    IF obj.k = "none" THEN obj
    ELSE IF obj.oid = oid THEN new
    ELSE IF obj.k = "item" THEN obj
    ELSE [obj EXCEPT !.items = [i \in DOMAIN obj.items |->
                                    Mutate(obj.items[i], oid, new)],
                     !.start_item = Mutate(obj.start_item, oid, new),
                     !.end_item = Mutate(obj.end_item, oid, new)]

RECURSIVE as_range_flat(_)
RECURSIVE flat_of_items(_, _)
\* as_range('flat') over the children from index i on.
flat_of_items(items, i) ==
    IF i > Len(items) THEN <<>>
    ELSE as_range_flat(items[i]) \o flat_of_items(items, i + 1)

\* recursive_yield: a leaf yields itself, a Sequence yields its leaves.
as_range_flat(obj) ==
    IF obj.k = "item" THEN <<obj>> ELSE flat_of_items(obj.items, 1)

\* The leaf values, in iteration order.
flat_values(obj) ==
    LET leaves == as_range_flat(obj)
    IN [i \in DOMAIN leaves |-> item_get_value(leaves[i])]

\* The leaf paths, in iteration order.
flat_paths(obj) ==
    LET leaves == as_range_flat(obj)
    IN [i \in DOMAIN leaves |-> leaves[i].path]

\* repr_sequence['to_format'](template)
get_format_path(self) == to_format(self.template)

\* get_range_items: no items when start and end are both 0, else one item
\* for every value of Range(start, end + 1).
get_range_items(start_item, end_item, format_path, ids) ==
    LET start == item_get_value(start_item)
        end == item_get_value(end_item)
    IN IF start = 0 /\ end = 0 THEN <<>>
       ELSE [i \in 1..(end + 1 - start) |->
                SequenceItem(format_path_format(format_path, start + i - 1),
                             ids[i])]

\* Sequence.__init__(template, start, end) for a template string; an empty
\* Sequence gets start and end items of value 0, one per dimension.
Sequence_init(template, start, end, live) ==
    LET format_path == to_format(template)
        is_empty_sequence == start = 0 /\ end = 0
        bogus == [d \in 1..get_dimensions(format_path) |-> 0]
        lo == IF start > end THEN end ELSE start
        hi == IF start > end THEN start ELSE end
        s == IF is_empty_sequence THEN bogus[1] ELSE lo
        e == IF is_empty_sequence THEN bogus[1] ELSE hi
        ids == FreshIds(live, 3 + (e + 1 - s))
        start_item == SequenceItem(format_path_format(format_path, s), ids[2])
        end_item == SequenceItem(format_path_format(format_path, e), ids[3])
    IN [k |-> "seq", oid |-> ids[1], template |-> template,
        start_item |-> start_item, end_item |-> end_item,
        items |-> get_range_items(start_item, end_item, format_path,
                                  SubSeq(ids, 4, Len(ids)))]

\* has_consistent_padding in Sequence.__init__: all([item.get_padding() ...])
\* is the truth of every padding, so it holds when no padding is 0; the
\* paddings are not compared with each other.
has_consistent_padding(paths) ==
    \A i \in DOMAIN paths : Len(paths[i].digits) # 0

\* Sequence.__init__(paths) for a list of paths: the template is the first
\* path with '#' for every digit of its run, start and end are the least
\* and the greatest value of the paths, and the items are made from start
\* and end as for a template.
Sequence_init_list(paths, live) ==
    LET values == [i \in DOMAIN paths |-> int_str(paths[i].digits)]
        template == IF has_consistent_padding(paths)
                    THEN PoundTemplate(paths[1].name, Len(paths[1].digits))
                    ELSE GlobTemplate(paths[1].name)
    IN Sequence_init(template, SeqMin(values), SeqMax(values), live)

RECURSIVE get_range_point(_, _)
\* _get_range_point: the value of a SequenceItem, the start or end of a
\* nested Sequence.
get_range_point(obj, mode) ==
    IF obj.k = "item" THEN item_get_value(obj)
    ELSE IF mode = "start" THEN get_range_point(obj.start_item, mode)
    ELSE get_range_point(obj.end_item, mode)

get_start(self) == get_range_point(self.start_item, "start")

get_end(self) == get_range_point(self.end_item, "end")

RECURSIVE get_end_item_recursive(_)
\* get_end_item(recursive=True): follow end_item down to a SequenceItem.
get_end_item_recursive(obj) ==
    IF obj.k = "item" THEN obj ELSE get_end_item_recursive(obj.end_item)

\* _recalculate_range: min() and max() return the first extreme child.
recalculate_range(self) ==
    LET n == Len(self.items)
        lo == CHOOSE i \in 1..n :
                /\ \A j \in 1..n : get_range_point(self.items[i], "start")
                                     <= get_range_point(self.items[j], "start")
                /\ \A j \in 1..(i - 1) :
                       get_range_point(self.items[j], "start")
                         > get_range_point(self.items[i], "start")
        hi == CHOOSE i \in 1..n :
                /\ \A j \in 1..n : get_range_point(self.items[i], "end")
                                     >= get_range_point(self.items[j], "end")
                /\ \A j \in 1..(i - 1) :
                       get_range_point(self.items[j], "end")
                         < get_range_point(self.items[i], "end")
    IN [self EXCEPT !.start_item = self.items[lo],
                    !.end_item = self.items[hi]]

\* _is_left_of(first, second)
is_left_of(first, second) ==
    /\ get_start(first) < get_end(second)
    /\ get_end(first) < get_start(second)

\* __lt__ and __gt__
Sequence_lt(self, sequence) == is_left_of(self, sequence)

Sequence_gt(self, sequence) == is_left_of(sequence, self)

values_overlap(self, sequence) ==
    ~(Sequence_lt(self, sequence) \/ Sequence_gt(self, sequence))

has_matching_name(self, sequence) ==
    get_format_path(self) = get_format_path(sequence)

\* A variant of overlaps that never reports an overlap.
overlaps_never(self, sequence) == FALSE

overlaps(self, sequence) ==
    values_overlap(self, sequence) /\ has_matching_name(self, sequence)

\* __contains__: `other in self.items`, decided by identity for a
\* SequenceItem; a nested Sequence never equals a SequenceItem.
Sequence_contains_dunder(self, obj) ==
    \E i \in DOMAIN self.items :
        self.items[i].k = "item" /\ item_eq(self.items[i], obj)

\* contains: the object itself, or a leaf with the same path.
contains(self, obj) ==
    \/ Sequence_contains_dunder(self, obj)
    \/ \E i \in DOMAIN flat_paths(self) : flat_paths(self)[i] = obj.path

\* fits: the ranges interleave and no leaf of sequence is already in self.
fits(self, sequence) ==
    LET is_contained == /\ ~Sequence_lt(self, sequence)
                        /\ ~Sequence_gt(self, sequence)
                        /\ overlaps(self, sequence)
        leaves == as_range_flat(sequence)
    IN /\ is_contained
       /\ \A i \in DOMAIN leaves : ~contains(self, leaves[i])

\* __eq__: izip stops at the shorter of the two leaf lists.
Sequence_eq(self, sequence) ==
    LET mine == flat_paths(self)
        theirs == flat_paths(sequence)
    IN \A i \in 1..Min2(Len(mine), Len(theirs)) : mine[i] = theirs[i]

(***************************************************************************)
(* sequencer.py: Sequence.__repr__.  The text of a repr is the tuple of    *)
(* its lines; a line is its number of leading spaces, its text without the *)
(* value it shows, that value (arg), and whether a ',' was put after it.   *)
(* INDENT is an attribute of the class that __repr__ assigns through self, *)
(* so the first assignment gives the object an attribute of its own.       *)
(***************************************************************************)
\* The class attribute Sequence.INDENT.
Sequence_INDENT == 0

\* self.INDENT: the attribute of the object, else that of the class.
get_INDENT(self) ==
    IF "INDENT" \in DOMAIN self THEN self.INDENT ELSE Sequence_INDENT

\* self.INDENT = value
set_INDENT(self, value) ==
    [k |-> "seq", oid |-> self.oid, template |-> self.template,
     start_item |-> self.start_item, end_item |-> self.end_item,
     items |-> self.items, INDENT |-> value]

ReprLine(indent, text, arg) ==
    [indent |-> indent, text |-> text, arg |-> arg, comma |-> FALSE]

\* text + ','
with_comma(text) == [text EXCEPT ![Len(text)].comma = TRUE]

\* textcase.indent(text, ' ' * width): the prefix goes before every line.
textcase_indent(text, width) ==
    [i \in DOMAIN text |-> [text[i] EXCEPT !.indent = @ + width]]

RECURSIVE join_reprs(_, _)
\* ',\n'.join(reprs), from the i-th on.
join_reprs(reprs, i) ==
    IF i > Len(reprs) THEN <<>>
    ELSE IF i = Len(reprs) THEN reprs[i]
    ELSE with_comma(reprs[i]) \o join_reprs(reprs, i + 1)

\* SequenceItem.__repr__: SequenceItem('<path>')
SequenceItem_repr(it) == <<ReprLine(0, "SequenceItem('')", it.path)>>

\* repr_output.format(...): the joined items follow eight spaces and are
\* followed by ','.
format_repr_output(template, items) ==
    <<ReprLine(0, "Sequence(template='',", template),
      ReprLine(4, "items=[", None)>>
    \o (IF items = <<>> THEN with_comma(<<ReprLine(8, "", None)>>)
        ELSE with_comma([items EXCEPT ![1].indent = @ + 8]))
    \o <<ReprLine(4, "]", None), ReprLine(0, ")", None)>>

\* The second loop of __repr__: every repr but the first is indented by
\* eight spaces times the INDENT of the object.
indent_reprs(reprs, INDENT) ==
    [i \in DOMAIN reprs |->
        IF i = 1 THEN reprs[i] ELSE textcase_indent(reprs[i], 8 * INDENT)]

RECURSIVE Sequence_repr(_)
RECURSIVE repr_children(_, _, _)
\* The object after the repr of its children from the i-th on was taken:
\* a child Sequence keeps what its own __repr__ assigned.
repr_children(self, items, i) ==
    IF i > Len(items) THEN self
    ELSE IF items[i].k = "seq"
    THEN repr_children(Mutate(self, items[i].oid,
                              Sequence_repr(items[i]).self), items, i + 1)
    ELSE repr_children(self, items, i + 1)

\* __repr__: INDENT goes up by one, and back to 0 only when no child is a
\* Sequence.
Sequence_repr(self) ==
    LET has_sequences == \E i \in DOMAIN self.items : self.items[i].k = "seq"
        reprs == [i \in DOMAIN self.items |->
                     IF self.items[i].k = "seq"
                     THEN Sequence_repr(self.items[i]).out
                     ELSE SequenceItem_repr(self.items[i])]
    IN [out |-> format_repr_output(
                    self.template,
                    join_reprs(indent_reprs(reprs, get_INDENT(self) + 1), 1)),
        self |-> set_INDENT(repr_children(self, self.items, 1),
                            IF has_sequences THEN get_INDENT(self) + 1
                            ELSE 0)]

(***************************************************************************)
(* sequencer.py: the mutating operations of Sequence.  Each returns the    *)
(* error it raised ("" when none) and the receiver after the call.         *)
(***************************************************************************)
RECURSIVE copy_copy(_, _)
RECURSIVE Sequence_copy_items(_, _, _, _)
RECURSIVE insert(_, _, _, _)
RECURSIVE add_sequence_in_place(_, _, _)
RECURSIVE add_in_place(_, _, _)

\* A variant of copy.copy that hands back the object itself.
copy_copy_same_object(obj, live) == [err |-> "", obj |-> obj]

\* copy.copy(obj): a new SequenceItem with the same path, or __copy__ of a
\* Sequence.
copy_copy(obj, live) ==
    IF obj.k = "item"
    THEN [err |-> "", obj |-> [obj EXCEPT !.oid = FreshId(live)]]
    ELSE Sequence_copy_items(Sequence_init(obj.template, 0, 0, live),
                             obj.items, 1, live)

\* __copy__: an empty Sequence of the same template, to which a copy of
\* every child is added with add_in_place, in the order of `items`.
Sequence_copy_items(new_item, items, i, live) ==
    IF i > Len(items) THEN [err |-> "", obj |-> new_item]
    ELSE LET c == copy_copy(items[i], live \cup Ids(new_item))
             r == add_in_place(new_item, c.obj,
                               live \cup Ids(new_item) \cup Ids(c.obj))
         IN IF c.err # "" THEN [err |-> c.err, obj |-> new_item]
            ELSE IF r.err # "" THEN [err |-> r.err, obj |-> new_item]
            ELSE Sequence_copy_items(r.self, items, i + 1, live)

\* insert: a copy of the object goes to the position, then the range is
\* recalculated.
insert(self, position, obj, live) ==
    LET c == copy_copy(obj, live \cup Ids(self) \cup Ids(obj))
    IN IF c.err # "" THEN [err |-> c.err, self |-> self]
       ELSE [err |-> "",
             self |-> recalculate_range(
                 [self EXCEPT !.items = list_insert(self.items, position,
                                                    c.obj)])]

\* add_sequence_in_place: the loop runs over the leaves and never breaks,
\* so the index kept is the one before the last leaf greater than start.
add_sequence_in_place(self, sequence, live) ==
    LET start == get_start(sequence)
        values == flat_values(self)
        greater == {i \in DOMAIN values : values[i] > start}
        last_greater == CHOOSE i \in greater : \A j \in greater : j <= i
        recorded_index == IF greater = {} THEN Len(self.items)
                          ELSE (last_greater - 1) - 1
    IN insert(self, recorded_index, sequence, live)

\* The path of SequenceItem(5), an item made from an int and not from a
\* string: nothing can be read from it.
IntPath(v) == [int |-> v]

is_string_path(path) == "int" \notin DOMAIN path

\* The path of SequenceItem('0005'), an item made from a string of digits:
\* no text around its digit run.
DigitsPath(ds) == [name |-> "", digits |-> ds]

\* FORMAT_REGEX_STR counts the placeholders that write a width, '{:04d}';
\* it does not match '{}'.
format_dimensions(format_path) == IF format_path.pad > 0 THEN 1 ELSE 0

\* _conform_to_sequence_object(value) for an int ([k |-> "int"]), a string
\* of digits ([k |-> "str"]), a SequenceItem or a Sequence.  The first
\* strategy that returns an item wins: get_item_using_format returns None
\* when the format string has no '{:0Nd}' placeholder and when format()
\* raises ValueError, as it does for a string given to a 'd' placeholder;
\* get_item_using_path then makes SequenceItem(value) of whatever it is
\* given, so get_item_from_str_value is never reached.
conform_to_sequence_object(self, arg, live) ==
    IF arg.k \in {"item", "seq"} THEN arg
    ELSE LET format_path == get_format_path(self)
             oid == FreshId(live \cup Ids(self))
         IN IF format_dimensions(format_path) = 1 /\ arg.k = "int"
            THEN SequenceItem(format_path_format(format_path, arg.v), oid)
            ELSE IF arg.k = "int"
            THEN SequenceItem(IntPath(arg.v), oid)
            ELSE SequenceItem(DigitsPath(arg.digits), oid)

\* add_in_place(item) for an int, a string of digits, a SequenceItem or a
\* Sequence.  item.get_value() of an item made from an int raises in
\* os.path.basename.  The message of the ValueError is formatted with
\* {item!r} and {obj!r}, so __repr__ runs on the argument and on self and
\* assigns their INDENT: that result alone carries `item`, the argument
\* after the call.
add_in_place(self, arg, live) ==
    LET obj == conform_to_sequence_object(self, arg, live)
    IN IF obj.k = "seq"
       THEN IF overlaps(self, obj) /\ ~fits(self, obj)
            THEN [err |-> "ValueError", self |-> Sequence_repr(self).self,
                  item |-> Sequence_repr(obj).self]
            ELSE add_sequence_in_place(self, obj, live)
       ELSE IF ~is_string_path(obj.path)
       THEN [err |-> "AttributeError", self |-> self]
       ELSE LET item_value == item_get_value(obj)
                values == flat_values(self)
                greater == {i \in DOMAIN values : values[i] > item_value}
                first == CHOOSE i \in greater : \A j \in greater : i <= j
            IN IF greater # {}
               THEN insert(self, first - 1, obj, live)
               ELSE insert(self, Len(self.items), obj, live)

\* __set_range_point on the object a range point names: the object and its
\* new value, or the AttributeError of asking a Sequence for get_value().
set_range_point(target, value) ==
    IF target.k = "seq"
    THEN [err |-> "AttributeError", oid |-> target.oid, new |-> target]
    ELSE [err |-> "", oid |-> target.oid,
          new |-> IF value # item_get_value(target)
                  THEN item_set_value(target, value) ELSE target]

\* set_start(value) acts on start_item.
set_start(self, value) == set_range_point(self.start_item, value)

\* set_end(value) acts on get_end_item(recursive=True).
set_end(self, value) ==
    set_range_point(get_end_item_recursive(self.end_item), value)

RECURSIVE set_padding_items(_, _, _, _)
\* for item in self: item.set_padding(value, position), over the leaves from
\* index i on.
set_padding_items(self, leaves, i, value) ==
    IF i > Len(leaves) THEN self
    ELSE set_padding_items(
             Mutate(self, leaves[i].oid, item_set_padding(leaves[i], value)),
             leaves, i + 1, value)

\* A variant of set_padding that sets every padding it is given.
set_padding_unchecked(self, value, force) ==
    [err |-> "",
     self |-> [set_padding_items(self, as_range_flat(self), 1, value)
                  EXCEPT !.template = join_template(
                      self.template.name, make(self.template.type, value))]]

\* set_padding(value, force=force): max() of no leaves raises ValueError; a
\* value below the digits of the greatest leaf value raises ValueError
\* unless forced; else every leaf, then the template, takes the padding.
set_padding(self, value, force) ==
    LET values == flat_values(self)
    IN IF Len(values) = 0 THEN [err |-> "ValueError", self |-> self]
       ELSE LET max_item_value == SeqMax(values)
                max_padding == Len(str_int(max_item_value))
            IN IF ~force /\ value < max_padding
               THEN [err |-> "ValueError", self |-> self]
               ELSE [err |-> "",
                     self |-> [set_padding_items(self, as_range_flat(self),
                                                 1, value)
                                  EXCEPT !.template = join_template(
                                      self.template.name,
                                      make(self.template.type, value))]]

\* set_type(as_type, padding): raises ValueError when a padding is needed
\* and none is given; does nothing for the notation the Sequence has; else
\* reads the padding of the present token with get_value, writes the token
\* of the new notation, and ends with set_padding(padding) when a padding
\* was given.
set_type(self, as_type, padding) ==
    LET repr_sequence == REPR_SEQUENCES[as_type]
        self_repr_sequence == REPR_SEQUENCES[self.template.type]
        got == get_value(self.template)
        value == IF got.value # NoPadding THEN got.value ELSE padding
        changed == [self EXCEPT !.template = join_template(
                                    self.template.name, make(as_type, value))]
    IN IF /\ self_repr_sequence.padding_case = "insensitive"
          /\ repr_sequence.padding_case = "sensitive"
          /\ padding = NoPadding
       THEN [err |-> "ValueError", self |-> self]
       ELSE IF repr_sequence.type = self_repr_sequence.type
       THEN [err |-> "", self |-> self]
       ELSE IF got.err # "" THEN [err |-> got.err, self |-> self]
       ELSE IF padding # NoPadding THEN set_padding(changed, padding, FALSE)
       ELSE [err |-> "", self |-> changed]

\* The number of digit runs in the non-digit text of a name of the model:
\* the name "a2" stands for a text like '/a/im2' or '/a/v2/im'.
digit_runs(name) == IF name = "a2" THEN 1 ELSE 0

\* promote_to_sequence(path): ValueError when the non-digit texts differ or
\* the values are equal; else Sequence(template, start, end) for the
\* template that has '#' for every digit of every digit run of self.path.
\* With a digit run in the non-digit text the template has more than one
\* token, and Sequence.__init__ formats it with the one start value:
\* IndexError.
promote_to_sequence(self, path, live) ==
    LET mine == item_get_value(self)
        theirs == int_str(path.digits)
        start == IF mine > theirs THEN theirs ELSE mine
        end == IF mine > theirs THEN mine ELSE theirs
        formatted_path == PoundTemplate(self.path.name, Len(self.path.digits))
    IN IF self.path.name # path.name THEN [err |-> "ValueError", obj |-> None]
       ELSE IF mine = theirs THEN [err |-> "ValueError", obj |-> None]
       ELSE IF 1 + digit_runs(self.path.name) > 1
       THEN [err |-> "IndexError", obj |-> None]
       ELSE [err |-> "",
             obj |-> Sequence_init(formatted_path, start, end, live)]

(***************************************************************************)
(* udim_iterator.py.  An iterator object is a record of its class and its  *)
(* start, end and width, and of `given`, the arguments of its constructor  *)
(* call.                                                                   *)
(***************************************************************************)
\* The default of the width parameters.
DefaultWidth == 10

\* A variant of range() that includes its end.
range_list_inclusive(start, end) ==
    [i \in 1..Max2(0, end + 1 - start) |-> start + i - 1]

\* [number for number in range(start, end)]
range_list(start, end) == [i \in 1..Max2(0, end - start) |-> start + i - 1]

\* UdimBaseIterator.__init__: start and end are put in order; a negative
\* start raises ValueError.
UdimBaseIterator_init(start, end, width) ==
    LET lo == IF start > end THEN end ELSE start
        hi == IF start > end THEN start ELSE end
    IN IF lo < 0 THEN [err |-> "ValueError", obj |-> None]
       ELSE [err |-> "",
             obj |-> [k |-> "udim", cls |-> "base", start |-> lo, end |-> hi,
                      width |-> width]]

\* UdimIterator.__init__ for udim_type 'raw': the base class is initialised
\* with start and end only, so with the default width.
UdimIterator_init(start, end, width) ==
    LET lo == IF start > end THEN end ELSE start
        hi == IF start > end THEN start ELSE end
    IN UdimBaseIterator_init(lo, hi, DefaultWidth)

\* convert_2d_to_index((x, y), width)
convert_2d_to_index(value, width) == (value[1] * width) + value[2]

\* UdimIterator2D.__init__: start and end pairs become indexes with the
\* width given; the parent is initialised with start and end only, and the
\* base class then stores the default width over the width given.
UdimIterator2D_init(start, end, width) ==
    LET r == UdimIterator_init(convert_2d_to_index(start, width),
                               convert_2d_to_index(end, width), DefaultWidth)
    IN IF r.err # "" THEN r
       ELSE [err |-> "", obj |-> [r.obj EXCEPT !.cls = "2d"]]

\* A variant of UdimBaseIterator.__iter__ without the carry.
UdimBaseIterator_iter_plain(self) == range_list(self.start, self.end)

\* UdimBaseIterator.__iter__: the values it yields, in order.
UdimBaseIterator_iter(self) ==
    LET values == range_list(self.start, self.end)
    IN [i \in DOMAIN values |->
           ((values[i] \div self.width) * 100) + (values[i] % self.width)]

\* UdimIterator2D.__iter__
UdimIterator2D_iter(self) ==
    LET results == UdimBaseIterator_iter(self)
    IN [i \in DOMAIN results |-> <<results[i] \div 100, results[i] % 100>>]

(***************************************************************************)
(* sequencer.py: as_range('bounds') and __delitem__.                       *)
(***************************************************************************)
\* list(seq.as_range('bounds')): full_range iterates over
\* Range(self.get_start('real'), self.get_end('real')), and mode 'real'
\* hands back the start and end objects themselves, never their values.
\* Range.__init__ compares them: a Sequence compared with a SequenceItem
\* asks the item for get_start() or get_end() and raises AttributeError.
\* Two SequenceItems have no order of their own (Python 3 raises TypeError
\* on '>', Python 2 orders them by address), and Range.__iter__ then calls
\* range() on objects that are not ints: TypeError, whatever the order.
as_range_bounds(self) ==
    LET start == self.start_item
        end == self.end_item
    IN IF (start.k = "seq") # (end.k = "seq")
       THEN [err |-> "AttributeError", out |-> <<>>]
       ELSE [err |-> "TypeError", out |-> <<>>]

\* del lst[index], positions counted from 0 and from the end when negative.
list_delete(lst, index) ==
    LET n == Len(lst)
        at == IF index < 0 THEN index + n ELSE index
    IN SubSeq(lst, 1, at) \o SubSeq(lst, at + 2, n)

\* __delitem__(index): del self.items[index], and nothing else.
delitem(self, index) ==
    LET n == Len(self.items)
        at == IF index < 0 THEN index + n ELSE index
    IN IF at < 0 \/ at >= n THEN [err |-> "IndexError", self |-> self]
       ELSE [err |-> "",
             self |-> [self EXCEPT !.items = list_delete(self.items, index)]]

(***************************************************************************)
(* conversion.get_repr_container and make_sequence, over templates of      *)
(* several tokens.  A path template '/a/<dir>/im.<t1>.<t2>.tif' is the     *)
(* tokens of its directory (`dir`) and the tokens of its basename          *)
(* (`base`).  A token is what `make` gives ('####', '%4d', '$F4', '*',     *)
(* '<fnum>'), the bare '$F', which writes no width, or a run of literal    *)
(* digits, of type "digits".                                               *)
(***************************************************************************)
PathTemplate(dir, base) == [dir |-> dir, base |-> base]

\* '$F'
BareDollarF == [type |-> "dollar_f", pad |-> 0, zeros |-> 0]

\* '0001'
DigitsToken == [type |-> "digits", pad |-> 4]

\* is_angular, is_dollar_f, is_glob, is_percent, is_pound: is_angular and
\* is_dollar_f search the whole path, the other three look at
\* os.path.basename(path).
is_valid(key, template) ==
    LET in_dir == \E i \in DOMAIN template.dir : template.dir[i].type = key
        in_base == \E i \in DOMAIN template.base : template.base[i].type = key
    IN IF key \in {"angular", "dollar_f"} THEN in_dir \/ in_base
       ELSE in_base

\* get_repr_container: the first notation that six.itervalues(
\* REPR_SEQUENCES) reaches and whose is_valid accepts the template, "None"
\* when there is none.  `keys` is the order in which the build iterates
\* over the dict REPR_SEQUENCES is made of.
get_repr_container(keys, template) ==
    LET valid == {i \in DOMAIN keys : is_valid(keys[i], template)}
    IN IF valid = {} THEN "None"
       ELSE keys[CHOOSE i \in valid : \A j \in valid : i <= j]

\* formatted_template.count('{}') in make_sequence: to_format of a notation
\* rewrites the tokens of that notation only, and a token that writes a
\* width becomes '{:0Nd}', which count('{}') does not count.
number_of_dimensions(key, template) ==
    LET tokens == template.dir \o template.base
    IN Cardinality({i \in DOMAIN tokens :
                       tokens[i].type = key /\ tokens[i].pad = 0})

\* The class of a Sequence object.
class_of(obj) == IF "cls" \in DOMAIN obj THEN obj.cls ELSE "Sequence"

\* SequenceMultiDimensional(template, start, end) for ints start and end
\* and a template of two or more '{}' placeholders: an empty sequence with
\* start and end items of value 0 in every dimension when start and end
\* are 0; else formatted_template.format(start) has too few arguments.
SequenceMultiDimensional_init(template, start, end, live) ==
    IF start = 0 /\ end = 0
    THEN LET ids == FreshIds(live, 3)
             zeros == [i \in DOMAIN template.base |-> DigitPart(<<0>>)]
             parts == <<TextPart("a.")>>
                        \o [i \in 1..(2 * Len(zeros) - 1) |->
                               IF i % 2 = 1 THEN zeros[(i + 1) \div 2]
                               ELSE TextPart(".")]
                        \o <<TextPart(".tif")>>
         IN [err |-> "",
             obj |-> [k |-> "seq", cls |-> "SequenceMultiDimensional",
                      oid |-> ids[1], template |-> template,
                      start_item |-> PartsItem(parts, ids[2]),
                      end_item |-> PartsItem(parts, ids[3]),
                      items |-> <<>>]]
    ELSE [err |-> "IndexError", obj |-> None]

\* make_sequence(template, start, end) for a template whose tokens are all
\* the same token: None['to_format'] raises TypeError when no notation
\* accepts the template.
make_sequence(keys, template, start, end, live) ==
    LET key == get_repr_container(keys, template)
        n == IF key = "None" THEN 0 ELSE number_of_dimensions(key, template)
    IN IF key = "None" THEN [err |-> "TypeError", obj |-> None]
       ELSE IF n = 1
       THEN [err |-> "",
             obj |-> Sequence_init(join_template("a", template.base[1]),
                                   start, end, live)]
       ELSE IF n > 1
       THEN SequenceMultiDimensional_init(template, start, end, live)
       ELSE [err |-> "ValueError", obj |-> None]

(***************************************************************************)
(* sequencer_item.py: the tokenizer of SequenceItem, over a path written   *)
(* as the tuple of its characters.  A digit is one of the strings "0" to   *)
(* "9".  The item keeps, beside its path, the delimiter that               *)
(* path_delimiter found for it: "None" until the first call that needs     *)
(* it, then "dot" for (\.)(\d+) or "uv" for (_[uv])(\d+).                  *)
(***************************************************************************)
DigitChars == {"0", "1", "2", "3", "4", "5", "6", "7", "8", "9"}

\* The value of one decimal digit.
digit_value(c) ==
    CHOOSE d \in 0..9 :
        <<"0", "1", "2", "3", "4", "5", "6", "7", "8", "9">>[d + 1] = c

\* int(value) for a run of digit characters.
int_chars(s) == int_str([i \in DOMAIN s |-> digit_value(s[i])])

\* value.isdigit()
str_isdigit(s) == s # <<>> /\ \A i \in DOMAIN s : s[i] \in DigitChars

not_isdigit(s) == ~str_isdigit(s)

\* _path_delimiter_choices
path_delimiter_choices == <<"dot", "uv">>

\* The length of the first group of a choice: '.' or '_u' / '_v'.
delimiter_len(choice) == IF choice = "dot" THEN 1 ELSE 2

\* The first group of the choice matches at index i.
delimiter_at(choice, path, i) ==
    IF choice = "dot" THEN i <= Len(path) /\ path[i] = "."
    ELSE i + 1 <= Len(path) /\ path[i] = "_" /\ path[i + 1] \in {"u", "v"}

\* The index of the last character of the match of the choice that begins
\* at index i, the digits taken greedily; 0 when there is no match at i.
match_end(choice, path, i) ==
    LET first == i + delimiter_len(choice)
    IN IF delimiter_at(choice, path, i) /\ first <= Len(path)
          /\ path[first] \in DigitChars
       THEN CHOOSE e \in first..Len(path) :
                /\ \A j \in first..e : path[j] \in DigitChars
                /\ (e = Len(path) \/ path[e + 1] \notin DigitChars)
       ELSE 0

RECURSIVE re_split(_, _, _, _)
RECURSIVE re_split_match(_, _, _, _, _)
\* The pieces that a match from index i to index e gives, and the pieces
\* after it; the search goes on at the next index when e is 0.
re_split_match(choice, path, from, i, e) ==
    IF e = 0 THEN re_split(choice, path, from, i + 1)
    ELSE <<SubSeq(path, from, i - 1),
           SubSeq(path, i, i + delimiter_len(choice) - 1),
           SubSeq(path, i + delimiter_len(choice), e)>>
         \o re_split(choice, path, e + 1, e + 1)

\* re_compile.split(path) from index i on, the text before i that is not
\* yet given out beginning at index from: the text between matches, and
\* the two groups of every match.
re_split(choice, path, from, i) ==
    IF i > Len(path) THEN <<SubSeq(path, from, Len(path))>>
    ELSE re_split_match(choice, path, from, i, match_end(choice, path, i))

not_empty(s) == s # <<>>

\* temp_list[0:2] = [''.join(temp_list[0:2])]
join_first_two(temp_list) ==
    IF Len(temp_list) = 0 THEN << <<>> >>
    ELSE IF Len(temp_list) = 1 THEN temp_list
    ELSE <<temp_list[1] \o temp_list[2]>>
         \o SubSeq(temp_list, 3, Len(temp_list))

\* split_by_group: the pieces that are not empty, the first two joined.
split_by_group(path, choice) ==
    join_first_two(SelectSeq(re_split(choice, path, 1, 1), not_empty))

\* os.path.basename(path)
basename(path) ==
    LET slashes == {i \in DOMAIN path : path[i] = "/"}
    IN IF slashes = {} THEN path
       ELSE SubSeq(path, (CHOOSE i \in slashes : \A j \in slashes : j <= i) + 1,
                   Len(path))

CharsItem(chars, oid) ==
    [k |-> "item", oid |-> oid, path |-> [chars |-> chars],
     path_delimiter |-> "None"]

\* The end of get_value: the ints of the digit pieces, ValueError when
\* there is none (the code hands back the int itself when there is one).
value_of_digits(digits) ==
    IF digits = <<>> THEN [err |-> "ValueError", out |-> <<>>]
    ELSE [err |-> "", out |-> [i \in DOMAIN digits |-> int_chars(digits[i])]]

\* The body of get_value under a delimiter: it splits the basename.
get_value_using(it, choice) ==
    value_of_digits(SelectSeq(split_by_group(basename(it.path.chars), choice),
                              str_isdigit))

\* The loop of path_delimiter, ok being the indexes of the choices under
\* which get_value does not raise ValueError: the first of them is kept.
\* Each choice is stored before it is tried, so the last one stays stored
\* when every choice fails and NotImplementedError is raised.
first_working_choice(it, ok) ==
    LET choices == path_delimiter_choices
        found == IF ok = {} THEN choices[Len(choices)]
                 ELSE choices[CHOOSE i \in ok : \A j \in ok : i <= j]
    IN [err |-> IF ok = {} THEN "NotImplementedError" ELSE "",
        choice |-> found,
        self |-> [it EXCEPT !.path_delimiter = found]]

\* path_delimiter: the delimiter kept from an earlier call, else the first
\* choice that works.
path_delimiter(it) ==
    IF it.path_delimiter # "None"
    THEN [err |-> "", choice |-> it.path_delimiter, self |-> it]
    ELSE first_working_choice(it,
             {i \in DOMAIN path_delimiter_choices :
                 get_value_using(it, path_delimiter_choices[i]).err = ""})

\* The two characters '{}' of a format string, as one element.
Placeholder == "{}"

RECURSIVE str_join(_, _)
\* sep.join(strings)
str_join(sep, strings) ==
    IF Len(strings) = 0 THEN <<>>
    ELSE IF Len(strings) = 1 THEN strings[1]
    ELSE strings[1] \o sep \o str_join(sep, Tail(strings))

\* The getters once path_delimiter has answered d.
formatted_path_using(it, d) ==
    [err |-> d.err, self |-> d.self,
     out |-> IF d.err # "" THEN <<>>
             ELSE str_join(<<Placeholder>>,
                           SelectSeq(split_by_group(it.path.chars, d.choice),
                                     not_isdigit))]

dimensions_using(it, d) ==
    [err |-> d.err, self |-> d.self,
     out |-> IF d.err # "" THEN 0
             ELSE Len(SelectSeq(split_by_group(it.path.chars, d.choice),
                                str_isdigit))]

digits_using(it, d) ==
    [err |-> d.err, self |-> d.self,
     out |-> IF d.err # "" THEN <<>>
             ELSE SelectSeq(split_by_group(it.path.chars, d.choice),
                            str_isdigit)]

value_using(it, d) ==
    IF d.err # "" THEN [err |-> d.err, self |-> d.self, out |-> <<>>]
    ELSE LET r == get_value_using(it, d.choice)
         IN [err |-> r.err, self |-> d.self, out |-> r.out]

\* get_formatted_path: '{}'.join(self.get_non_digits())
chars_get_formatted_path(it) == formatted_path_using(it, path_delimiter(it))

\* get_dimensions: the number of digit pieces of the whole path.
chars_get_dimensions(it) == dimensions_using(it, path_delimiter(it))

\* get_value: the digit pieces of the basename.
chars_get_value(it) == value_using(it, path_delimiter(it))

\* get_digits(as_type=str): the pieces of the whole path that are digits;
\* the NotImplementedError of path_delimiter when no choice works.
chars_get_digits(it) == digits_using(it, path_delimiter(it))

(***************************************************************************)
(* Object identities.  An identity says only which objects are the same    *)
(* object, so after every call the identities in the caller's variables    *)
(* are renamed to 0, 1, 2, ... in the order in which seq and other reach   *)
(* them.                                                                   *)
(***************************************************************************)
RECURSIVE IdOrder(_)
RECURSIVE IdOrderItems(_, _)
IdOrderItems(items, i) ==
    IF i > Len(items) THEN <<>>
    ELSE IdOrder(items[i]) \o IdOrderItems(items, i + 1)

\* The identities of an object in depth-first order, with repetitions.
IdOrder(obj) ==
    IF obj.k = "none" THEN <<>>
    ELSE IF obj.k = "item" THEN <<obj.oid>>
    ELSE <<obj.oid>> \o IdOrder(obj.start_item) \o IdOrder(obj.end_item)
         \o IdOrderItems(obj.items, 1)

RECURSIVE FirstSeen(_, _)
\* A list of identities without the repetitions, in order of first use.
FirstSeen(ids, seen) ==
    IF Len(ids) = 0 THEN <<>>
    ELSE IF Head(ids) \in seen THEN FirstSeen(Tail(ids), seen)
    ELSE <<Head(ids)>> \o FirstSeen(Tail(ids), seen \cup {Head(ids)})

RECURSIVE Rename(_, _)
\* The object with every identity i replaced by the rank of i in order.
Rename(obj, order) ==
    LET rank(i) == (CHOOSE n \in DOMAIN order : order[n] = i) - 1
    IN IF obj.k = "none" THEN obj
       ELSE IF obj.k = "item" THEN [obj EXCEPT !.oid = rank(obj.oid)]
       ELSE [obj EXCEPT !.oid = rank(obj.oid),
                        !.start_item = Rename(obj.start_item, order),
                        !.end_item = Rename(obj.end_item, order),
                        !.items = [i \in DOMAIN obj.items |->
                                      Rename(obj.items[i], order)]]

RECURSIVE Nodes(_)
RECURSIVE NodesOfItems(_, _)
NodesOfItems(items, i) ==
    IF i > Len(items) THEN 0
    ELSE Nodes(items[i]) + NodesOfItems(items, i + 1)

\* The number of children an object holds, at every depth.
Nodes(obj) ==
    IF obj.k = "item" THEN 1
    ELSE 1 + NodesOfItems(obj.items, 1)

(***************************************************************************)
(* The state machine: a Sequence `seq`, and `other`, the object the caller *)
(* holds beside it: nothing yet (None), a SequenceItem or a second         *)
(* Sequence.  `last` is the last call: its name, the error it raised, and  *)
(* `given`: whether seq.add_in_place(other) has stored the present other,  *)
(* and the arguments of the call when it was a constructor call.           *)
(***************************************************************************)
\* The template '/a.##.tif'.
TemplateA == PoundTemplate("a", 2)

Paddings == {2, 3}

\* Every identity held by the caller's variables.
Live == Ids(seq) \cup Ids(other)

\* The caller's variables after a call.
Commit(new_seq, new_other) ==
    LET order == FirstSeen(IdOrder(new_seq) \o IdOrder(new_other), {})
    IN /\ seq' = Rename(new_seq, order)
       /\ other' = Rename(new_other, order)

\* The object `oid` takes the value new in every variable that holds it.
Heap(oid, new) == Commit(Mutate(seq, oid, new), Mutate(other, oid, new))

Call(op, err, given) ==
    [op |-> op, err |-> err, given |-> given, args |-> <<>>]

Init ==
    \E s \in Values, e \in Values :
        /\ s <= e
        /\ e + 1 - s < MaxNodes
        /\ seq = Sequence_init(TemplateA, s, e, {})
        /\ other = None
        /\ last = Call("init", "", FALSE)

\* seq.add_in_place(v) for an int v.
AddInt(v) ==
    LET r == add_in_place(seq, [k |-> "int", v |-> v], Live)
    IN /\ Nodes(r.self) <= MaxNodes
       /\ Heap(seq.oid, r.self)
       /\ last' = Call("add_int", r.err, last.given)

\* other = SequenceItem('/a.<v>.tif'), the value rendered by the template.
\* The caller creates its second object once.
NewItem(v) ==
    /\ other = None
    /\ Commit(seq, SequenceItem(format_path_format(get_format_path(seq), v),
                                FreshId(Ids(seq))))
    /\ last' = Call("new_item", "", FALSE)

\* other = Sequence(template, s, e)
NewSequence(s, e) ==
    /\ other = None
    /\ s <= e
    /\ e + 1 - s < MaxOtherNodes
    /\ Commit(seq, Sequence_init(TemplateA, s, e, Ids(seq)))
    /\ last' = [Call("new_sequence", "", FALSE) EXCEPT !.args = <<s, e>>]

\* seq.add_in_place(other) for the caller's SequenceItem or Sequence, while
\* seq stays within `bound` objects and the INDENT of seq and of other
\* within MaxRaiseIndent; a call that raises the ValueError of an overlap
\* leaves the INDENT that __repr__ assigned on seq and on other.
AddUpTo(bound) ==
    /\ other.k # "none"
    /\ LET r == add_in_place(seq, other, Live)
       IN /\ Nodes(r.self) <= bound
          /\ get_INDENT(r.self) <= MaxRaiseIndent
          /\ ("item" \in DOMAIN r => get_INDENT(r.item) <= MaxRaiseIndent)
          /\ Commit(r.self, IF "item" \in DOMAIN r THEN r.item ELSE other)
          /\ last' = Call("add", r.err, last.given \/ r.err = "")

Add == AddUpTo(MaxNodes)

\* other.add_in_place(v) on the caller's Sequence.
OtherAddInt(v) ==
    /\ other.k = "seq"
    /\ LET r == add_in_place(other, [k |-> "int", v |-> v], Live)
       IN /\ Nodes(r.self) <= MaxOtherNodes
          /\ Heap(other.oid, r.self)
          /\ last' = Call("other_add_int", r.err, last.given)

\* other.set_value(v) on the caller's SequenceItem.
OtherSetValue(v) ==
    /\ other.k = "item"
    /\ Heap(other.oid, item_set_value(other, v))
    /\ last' = Call("other_set_value", "", last.given)

\* other.set_padding(p, 0) on the caller's SequenceItem.
OtherSetPadding(p) ==
    /\ other.k = "item"
    /\ Heap(other.oid, item_set_padding(other, p))
    /\ last' = Call("other_set_padding", "", last.given)

Next ==
    \/ \E v \in Values : AddInt(v)
    \/ \E v \in Values : NewItem(v)
    \/ \E s \in Values, e \in Values : NewSequence(s, e)
    \/ Add
    \/ \E v \in Values : OtherAddInt(v)
    \/ \E v \in Values : OtherSetValue(v)
    \/ \E p \in Paddings : OtherSetPadding(p)

Spec == Init /\ [][Next]_vars

(***************************************************************************)
(* A second specification, for the ordering of two Sequences: seq is built *)
(* empty and then moved by set_start and set_end; other starts empty and   *)
(* takes ints, nested Sequences and set_end; seq.add_in_place takes other. *)
(***************************************************************************)
InitRange ==
    /\ seq = Sequence_init(TemplateA, 0, 0, {})
    /\ other = Sequence_init(TemplateA, 0, 0, Ids(seq))
    /\ last = Call("init", "", FALSE)

\* seq.set_start(v)
SetStart(v) ==
    LET r == set_start(seq, v)
    IN /\ Heap(r.oid, r.new)
       /\ last' = Call("set_start", r.err, last.given)

\* seq.set_end(v)
SetEnd(v) ==
    LET r == set_end(seq, v)
    IN /\ Heap(r.oid, r.new)
       /\ last' = Call("set_end", r.err, last.given)

\* other.set_end(v)
OtherSetEnd(v) ==
    LET r == set_end(other, v)
    IN /\ Heap(r.oid, r.new)
       /\ last' = Call("other_set_end", r.err, last.given)

\* other.add_in_place(v) while other stays within the bound of this
\* specification; v is drawn from 0..MaxRangeInt.
OtherAddIntRange(v) ==
    LET r == add_in_place(other, [k |-> "int", v |-> v], Live)
    IN /\ Nodes(r.self) <= MaxRangeNodes
       /\ Heap(other.oid, r.self)
       /\ last' = Call("other_add_int", r.err, last.given)

\* other.add_in_place(Sequence(template, s, e)) for a Sequence of at most
\* MaxRangeNested values, while the INDENT of other stays within
\* MaxRaiseIndent.
OtherAddSequence(s, e) ==
    LET r == add_in_place(other, Sequence_init(TemplateA, s, e, Live), Live)
    IN /\ s <= e
       /\ e + 1 - s <= MaxRangeNested
       /\ Nodes(r.self) <= MaxRangeNodes
       /\ get_INDENT(r.self) <= MaxRaiseIndent
       /\ Heap(other.oid, r.self)
       /\ last' = Call("other_add_sequence", r.err, last.given)

AddRange == AddUpTo(MaxRangeSeqNodes)

NextRange ==
    \/ \E v \in Values : SetStart(v)
    \/ \E v \in Values : SetEnd(v)
    \/ \E v \in Values : OtherSetEnd(v)
    \/ \E v \in 0..MaxRangeInt : OtherAddIntRange(v)
    \/ \E s \in Values, e \in Values : OtherAddSequence(s, e)
    \/ AddRange

SpecRange == InitRange /\ [][NextRange]_vars

(***************************************************************************)
(* A third specification, for set_padding: seq is built dense over values  *)
(* of one and two digits in a pound template of any width, takes ints      *)
(* (one of three digits among them) and nested Sequences, and has its      *)
(* padding set, forced or not.                                             *)
(***************************************************************************)
PadValues == MinPadVal..MaxPadVal

PadWidths == 1..MaxPad

InitPadding ==
    \E s \in PadValues, e \in PadValues, pad \in PadWidths :
        /\ seq = Sequence_init(PoundTemplate("a", pad), s, e, {})
        /\ other = None
        /\ last = Call("init", "", FALSE)

\* seq.add_in_place(v) for an int v.
PadAddInt(v) ==
    LET r == add_in_place(seq, [k |-> "int", v |-> v], Live)
    IN /\ Nodes(r.self) <= MaxPadNodes
       /\ Heap(seq.oid, r.self)
       /\ last' = Call("add_int", r.err, FALSE)

\* seq.add_in_place(Sequence(seq.template, s, e))
PadAddSequence(s, e) ==
    LET r == add_in_place(seq, Sequence_init(seq.template, s, e, Live), Live)
    IN /\ Nodes(r.self) <= MaxPadNodes
       /\ get_INDENT(r.self) <= MaxRaiseIndent
       /\ Heap(seq.oid, r.self)
       /\ last' = Call("add_sequence", r.err, FALSE)

\* seq.set_padding(p, force=force)
SetPadding(p, force) ==
    LET r == set_padding(seq, p, force)
    IN /\ Heap(seq.oid, r.self)
       /\ last' = [Call("set_padding", r.err, FALSE)
                      EXCEPT !.args = <<p, force>>]

NextPadding ==
    \/ \E v \in PadValues \cup {0, BigVal} : PadAddInt(v)
    \/ \E s \in PadValues, e \in PadValues : PadAddSequence(s, e)
    \/ \E p \in PadWidths, force \in BOOLEAN : SetPadding(p, force)

SpecPadding == InitPadding /\ [][NextPadding]_vars

(***************************************************************************)
(* A fourth specification, for set_type: seq is built dense or empty in a  *)
(* template of any of the five notations and is converted from notation to *)
(* notation, with or without a padding.  The arguments kept of a set_type  *)
(* call are the notation asked for, the padding given and the template the *)
(* Sequence had before the call.                                           *)
(***************************************************************************)
Notations == DOMAIN REPR_SEQUENCES

TypeWidths == 1..MaxTypePad

Templates ==
    {PoundTemplate("a", n) : n \in TypeWidths}
    \cup {PercentTemplate("a", z, n) : z \in {0, 1}, n \in TypeWidths}
    \cup {DollarFTemplate("a", 0, n) : n \in TypeWidths}
    \cup {GlobTemplate("a"), AngularTemplate("a")}

InitType ==
    \E template \in Templates, s \in Values, e \in Values :
        /\ seq = Sequence_init(template, s, e, {})
        /\ other = None
        /\ last = Call("init", "", FALSE)

\* seq.set_type(as_type) and seq.set_type(as_type, padding)
SetType(as_type, padding) ==
    LET r == set_type(seq, as_type, padding)
    IN /\ Heap(seq.oid, r.self)
       /\ last' = [Call("set_type", r.err, FALSE)
                      EXCEPT !.args = <<as_type, padding, seq.template>>]

NextType ==
    \E as_type \in Notations, padding \in TypeWidths \cup {NoPadding} :
        SetType(as_type, padding)

SpecType == InitType /\ [][NextType]_vars

(***************************************************************************)
(* A fifth specification, for SequenceItem alone: other is a SequenceItem  *)
(* of one or two digit runs that has values set at positions, or a         *)
(* SequenceItem of one run that is promoted with a second path to a        *)
(* Sequence, kept in seq.                                                  *)
(***************************************************************************)
ItemValues == {0, 1, MaxItemVal}

ItemWidths == 1..MaxItemPad

DigitRuns == {format_int(w, v) : w \in ItemWidths, v \in ItemValues}

\* '/a.<run>.tif' and '/a_u<run>_v<run>.tif'
ItemParts ==
    {<<TextPart("a."), DigitPart(d), TextPart(".tif")>> : d \in DigitRuns}
    \cup {<<TextPart("a_u"), DigitPart(d1), TextPart("_v"), DigitPart(d2),
            TextPart(".tif")>> : d1 \in DigitRuns, d2 \in DigitRuns}

ItemPaths ==
    {[name |-> n, digits |-> d] : n \in {"a", "b", "a2"}, d \in DigitRuns}

InitItem ==
    /\ seq = None
    /\ other \in {PartsItem(parts, 0) : parts \in ItemParts}
                 \cup {SequenceItem(path, 0) : path \in ItemPaths}
    /\ last = Call("init", "", FALSE)

\* other.set_value(value, position)
SetValue(value, position) ==
    /\ "parts" \in DOMAIN other.path
    /\ LET r == parts_set_value(other, value, position)
       IN /\ Heap(other.oid, r.self)
          /\ last' = [Call("set_value", r.err, FALSE)
                         EXCEPT !.args = <<value, position>>]

\* seq = other.promote_to_sequence(path); seq keeps what it was when the
\* call raises.
Promote(path) ==
    /\ "name" \in DOMAIN other.path
    /\ LET r == promote_to_sequence(other, path, Ids(other))
       IN /\ Commit(IF r.err = "" THEN r.obj ELSE seq, other)
          /\ last' = [Call("promote", r.err, FALSE) EXCEPT !.args = <<path>>]

NextItem ==
    \/ \E value \in {<<v>> : v \in ItemValues}
                    \cup {<<v, w>> : v \in ItemValues, w \in ItemValues},
          position \in {NoPosition}
                       \cup {Position(<<at>>) : at \in (0 - 1)..MaxItemPad}
                       \cup {Position(<<1, 0>>)} :
           SetValue(value, position)
    \/ \E path \in ItemPaths : Promote(path)

SpecItem == InitItem /\ [][NextItem]_vars

(***************************************************************************)
(* A sixth specification, for the UDIM iterators: other is the iterator    *)
(* the caller built last, and the arguments kept of an iteration are the   *)
(* values it yielded.                                                      *)
(***************************************************************************)
UdimValues == (0 - 1)..MaxUdimVal

UdimWidths == 1..MaxUdimWidth

InitUdim ==
    /\ seq = None
    /\ other = None
    /\ last = Call("init", "", FALSE)

\* The iterator the caller holds after a constructor call: the object
\* with the arguments of the call, or nothing when the call raised.
Constructed(r, given) ==
    IF r.err # "" THEN None
    ELSE [k |-> r.obj.k, cls |-> r.obj.cls, start |-> r.obj.start,
          end |-> r.obj.end, width |-> r.obj.width, given |-> given]

\* other = UdimBaseIterator(start, end, width); the caller builds one
\* iterator.
NewUdimBase(start, end, width) ==
    LET r == UdimBaseIterator_init(start, end, width)
    IN /\ other = None
       /\ seq' = seq
       /\ other' = Constructed(r, <<start, end, width>>)
       /\ last' = [Call("udim_base", r.err, FALSE)
                      EXCEPT !.args = <<start, end, width>>]

\* other = UdimBaseIterator(start, end)
NewUdimBaseDefault(start, end) ==
    LET r == UdimBaseIterator_init(start, end, DefaultWidth)
    IN /\ other = None
       /\ seq' = seq
       /\ other' = Constructed(r, <<start, end, DefaultWidth>>)
       /\ last' = [Call("udim_base_default", r.err, FALSE)
                      EXCEPT !.args = <<start, end, DefaultWidth>>]

\* other = UdimIterator2D(start=(x0, y0), end=(x1, y1), width=width)
NewUdim2D(start, end, width) ==
    LET r == UdimIterator2D_init(start, end, width)
    IN /\ other = None
       /\ seq' = seq
       /\ other' = Constructed(r, <<start, end, width>>)
       /\ last' = [Call("udim_2d", r.err, FALSE)
                      EXCEPT !.args = <<start, end, width>>]

\* list(other)
Iterate ==
    /\ other.k = "udim"
    /\ seq' = seq
    /\ other' = other
    /\ last' = [Call("iter", "", FALSE)
                   EXCEPT !.args = <<IF other.cls = "2d"
                                      THEN UdimIterator2D_iter(other)
                                      ELSE UdimBaseIterator_iter(other)>>]

NextUdim ==
    \/ \E start \in UdimValues, end \in UdimValues, width \in UdimWidths :
           NewUdimBase(start, end, width)
    \/ \E start \in UdimValues, end \in UdimValues :
           NewUdimBaseDefault(start, end)
    \/ \E width \in UdimWidths :
           \E start \in (0..MaxUdimX) \X (0..(width - 1)),
              end \in (0..MaxUdimX) \X (0..(width - 1)) :
               NewUdim2D(start, end, width)
    \/ Iterate

SpecUdim == InitUdim /\ [][NextUdim]_vars

(***************************************************************************)
(* A seventh specification, for Sequence(list_of_paths): seq is built once *)
(* from a list of one to MaxListLen paths of one name.                     *)
(***************************************************************************)
ListPaths ==
    {[name |-> "a", digits |-> format_int(w, v)] :
        w \in 1..MaxListPad, v \in 0..MaxListVal}

PathLists == UNION {[1..n -> ListPaths] : n \in 1..MaxListLen}

InitList ==
    /\ seq = None
    /\ other = None
    /\ last = Call("init", "", FALSE)

\* seq = Sequence(paths)
NewFromList(paths) ==
    /\ seq = None
    /\ Commit(Sequence_init_list(paths, {}), other)
    /\ last' = [Call("new_from_list", "", FALSE) EXCEPT !.args = <<paths>>]

NextList == \E paths \in PathLists : NewFromList(paths)

SpecList == InitList /\ [][NextList]_vars

(***************************************************************************)
(* An eighth specification, for add_in_place of ints and of strings of     *)
(* digits: seq is built dense or empty in a template of any of the five    *)
(* notations and takes ints n and the strings str(n).  The argument kept   *)
(* of a call is n.                                                         *)
(***************************************************************************)
AddValues == {0, 3, MaxAddVal}

InitAdd ==
    \E template \in Templates, s \in Values, e \in Values :
        /\ seq = Sequence_init(template, s, e, {})
        /\ other = None
        /\ last = Call("init", "", FALSE)

\* seq.add_in_place(n)
AddInPlaceInt(n) ==
    LET r == add_in_place(seq, [k |-> "int", v |-> n], Live)
    IN /\ Nodes(r.self) <= MaxAddNodes
       /\ Heap(seq.oid, r.self)
       /\ last' = [Call("add_int", r.err, FALSE) EXCEPT !.args = <<n>>]

\* seq.add_in_place(str(n))
AddInPlaceStr(n) ==
    LET r == add_in_place(seq, [k |-> "str", digits |-> str_int(n)], Live)
    IN /\ Nodes(r.self) <= MaxAddNodes
       /\ Heap(seq.oid, r.self)
       /\ last' = [Call("add_str", r.err, FALSE) EXCEPT !.args = <<n>>]

NextAdd ==
    \/ \E n \in AddValues : AddInPlaceInt(n)
    \/ \E n \in AddValues : AddInPlaceStr(n)

SpecAdd == InitAdd /\ [][NextAdd]_vars

(***************************************************************************)
(* A ninth specification, for make_sequence.  The dict REPR_SEQUENCES is   *)
(* built from has no order of its own: `other` holds the order in which    *)
(* the build iterates over its keys, any of the orders of the five keys.   *)
(* make_sequence(template, start, end) is called once, with a              *)
(* template of no token, of literal digits, or of one or two equal tokens  *)
(* of one notation.  The arguments kept of a call are the template, start  *)
(* and end.                                                                *)
(***************************************************************************)
KeyOrders ==
    {keys \in [1..Cardinality(Notations) -> Notations] :
        \A i \in DOMAIN keys : \A j \in DOMAIN keys :
            i # j => keys[i] # keys[j]}

MakeTokens ==
    {make(key, MaxTypePad) : key \in Notations}
    \cup {[type |-> "percent", pad |-> MaxTypePad, zeros |-> 1],
          BareDollarF, DigitsToken}

MakeTemplates ==
    {PathTemplate(<<>>, <<>>)}
    \cup {PathTemplate(<<>>, <<t>>) : t \in MakeTokens}
    \cup {PathTemplate(<<>>, <<t, t>>) : t \in MakeTokens}

InitMake ==
    /\ seq = None
    /\ other \in {[k |-> "conversion", keys |-> keys] : keys \in KeyOrders}
    /\ last = Call("init", "", FALSE)

\* seq = make_sequence(template, start, end), the one call of the caller;
\* seq keeps what it was when the call raises.
MakeSequence(template, start, end) ==
    LET r == make_sequence(other.keys, template, start, end, {})
    IN /\ last.op = "init"
       /\ seq' = IF r.err = "" THEN r.obj ELSE seq
       /\ other' = other
       /\ last' = [Call("make_sequence", r.err, FALSE)
                      EXCEPT !.args = <<template, start, end>>]

NextMake ==
    \E template \in MakeTemplates, start \in Values, end \in Values :
        MakeSequence(template, start, end)

SpecMake == InitMake /\ [][NextMake]_vars

(***************************************************************************)
(* A tenth specification, for as_range('bounds') and del seq[i]: seq is    *)
(* built dense, takes ints, SequenceItems and nested Sequences, loses      *)
(* children by index and is asked for its range of bounds.  The arguments  *)
(* kept are the value added, the index of a deletion and the elements      *)
(* as_range('bounds') yielded.                                             *)
(***************************************************************************)
EditValues == 0..MaxEditVal

InitEdit ==
    \E s \in Values, e \in Values :
        /\ seq = Sequence_init(TemplateA, s, e, {})
        /\ other = None
        /\ last = Call("init", "", FALSE)

\* seq.add_in_place(v) for an int v.
EditAddInt(v) ==
    LET r == add_in_place(seq, [k |-> "int", v |-> v], Live)
    IN /\ Nodes(r.self) <= MaxEditNodes
       /\ Heap(seq.oid, r.self)
       /\ last' = [Call("add_int", r.err, FALSE) EXCEPT !.args = <<v>>]

\* seq.add_in_place(SequenceItem(path)) for the path of value v in the
\* format of seq.
EditAddItem(v) ==
    LET item == SequenceItem(format_path_format(get_format_path(seq), v),
                             FreshId(Live))
        r == add_in_place(seq, item, Live \cup {item.oid})
    IN /\ Nodes(r.self) <= MaxEditNodes
       /\ Heap(seq.oid, r.self)
       /\ last' = [Call("add_item", r.err, FALSE) EXCEPT !.args = <<v>>]

\* seq.add_in_place(Sequence(seq.template, s, e)) for s < e.
EditAddSequence(s, e) ==
    LET r == add_in_place(seq, Sequence_init(seq.template, s, e, Live), Live)
    IN /\ s < e
       /\ Nodes(r.self) <= MaxEditNodes
       /\ get_INDENT(r.self) <= MaxRaiseIndent
       /\ Heap(seq.oid, r.self)
       /\ last' = Call("add_sequence", r.err, FALSE)

\* del seq[index]
DelItem(index) ==
    LET r == delitem(seq, index)
    IN /\ Heap(seq.oid, r.self)
       /\ last' = [Call("delitem", r.err, FALSE) EXCEPT !.args = <<index>>]

\* list(seq.as_range('bounds'))
AsRangeBounds ==
    LET r == as_range_bounds(seq)
    IN /\ seq' = seq
       /\ other' = other
       /\ last' = [Call("as_range_bounds", r.err, FALSE)
                      EXCEPT !.args = <<r.out>>]

NextEdit ==
    \/ \E v \in EditValues : EditAddInt(v)
    \/ \E v \in EditValues : EditAddItem(v)
    \/ \E s \in EditValues, e \in EditValues : EditAddSequence(s, e)
    \/ \E index \in (0 - 1)..(MaxEditNodes - 1) : DelItem(index)
    \/ AsRangeBounds

SpecEdit == InitEdit /\ [][NextEdit]_vars

(***************************************************************************)
(* An eleventh specification, for the calls that change a Sequence and can *)
(* raise: seq is built dense, over values of one and two digits, in a      *)
(* pound, a percent or a glob template, and takes ints, nested             *)
(* Sequences and inserted SequenceItems, has its padding set and its       *)
(* notation changed.                                                       *)
(***************************************************************************)
AtomTemplates ==
    {PoundTemplate("a", MaxTypePad), PercentTemplate("a", 1, MaxTypePad),
     GlobTemplate("a")}

InitAtom ==
    \E template \in AtomTemplates, s \in PadValues, e \in PadValues :
        /\ s <= e
        /\ seq = Sequence_init(template, s, e, {})
        /\ other = None
        /\ last = Call("init", "", FALSE)

\* seq.add_in_place(v) for an int v.
AtomAddInt(v) ==
    LET r == add_in_place(seq, [k |-> "int", v |-> v], Live)
    IN /\ Nodes(r.self) <= MaxAtomNodes
       /\ Heap(seq.oid, r.self)
       /\ last' = Call("add_int", r.err, FALSE)

\* seq.add_in_place(Sequence(seq.template, s, e)) for s <= e.
AtomAddSequence(s, e) ==
    LET r == add_in_place(seq, Sequence_init(seq.template, s, e, Live), Live)
    IN /\ s <= e
       /\ Nodes(r.self) <= MaxAtomNodes
       /\ get_INDENT(r.self) <= MaxRaiseIndent
       /\ Heap(seq.oid, r.self)
       /\ last' = Call("add_sequence", r.err, FALSE)

\* seq.insert(position, SequenceItem(path)) for the path of value v in the
\* format of seq.
AtomInsert(position, v) ==
    LET item == SequenceItem(format_path_format(get_format_path(seq), v),
                             FreshId(Live))
        r == insert(seq, position, item, Live \cup {item.oid})
    IN /\ Nodes(r.self) <= MaxAtomNodes
       /\ Heap(seq.oid, r.self)
       /\ last' = Call("insert", r.err, FALSE)

\* seq.set_padding(p, force=force)
AtomSetPadding(p, force) ==
    LET r == set_padding(seq, p, force)
    IN /\ Heap(seq.oid, r.self)
       /\ last' = Call("set_padding", r.err, FALSE)

\* seq.set_type(as_type) and seq.set_type(as_type, padding)
AtomSetType(as_type, padding) ==
    LET r == set_type(seq, as_type, padding)
    IN /\ Heap(seq.oid, r.self)
       /\ last' = Call("set_type", r.err, FALSE)

NextAtom ==
    \/ \E v \in PadValues : AtomAddInt(v)
    \/ \E s \in PadValues, e \in PadValues : AtomAddSequence(s, e)
    \/ \E position \in {0, 1}, v \in PadValues : AtomInsert(position, v)
    \/ \E p \in TypeWidths, force \in BOOLEAN : AtomSetPadding(p, force)
    \/ \E as_type \in Notations, padding \in {NoPadding, 1} :
           AtomSetType(as_type, padding)

SpecAtom == InitAtom /\ [][NextAtom]_vars

(***************************************************************************)
(* A twelfth specification, for get_repr_container: the build's order of   *)
(* the keys of REPR_SEQUENCES is held in `other`, as for make_sequence,    *)
(* and get_repr_container is called on templates of one or two tokens in   *)
(* the basename, with or without a token in the directory.  The arguments  *)
(* kept of a call are the template and the notation returned.              *)
(***************************************************************************)
ReprTokens == {make(key, MaxTypePad) : key \in Notations}

ReprTemplates ==
    {PathTemplate(dir, base) :
        dir \in {<<>>, <<make("angular", 0)>>, <<make("pound", MaxTypePad)>>},
        base \in {<<t>> : t \in ReprTokens \cup {DigitsToken}}
                 \cup {<<t, u>> : t \in ReprTokens, u \in ReprTokens}}

InitRepr ==
    /\ seq = None
    /\ other \in {[k |-> "conversion", keys |-> keys] : keys \in KeyOrders}
    /\ last = Call("init", "", FALSE)

\* conversion.get_repr_container(template)
GetReprContainer(template) ==
    /\ seq' = seq
    /\ other' = other
    /\ last' = [Call("get_repr_container", "", FALSE)
                   EXCEPT !.args =
                       <<template, get_repr_container(other.keys, template)>>]

NextRepr == \E template \in ReprTemplates : GetReprContainer(template)

SpecRepr == InitRepr /\ [][NextRepr]_vars

(***************************************************************************)
(* A thirteenth specification, for the tokenizer of SequenceItem: other is *)
(* a SequenceItem of a path of characters, with or without a digit run in  *)
(* its directory, whose basename has no, one or two digit runs; the four   *)
(* getters are called on it.  The argument kept of a call is its result.   *)
(***************************************************************************)
SplitRuns == {<<"1">>, <<"0", "1">>, <<"1", "2">>}

\* '/', '/a.12/' and '/s_u1/'
SplitDirs ==
    {<<"/">>, <<"/", "a", ".", "1", "2", "/">>, <<"/", "s", "_", "u", "1", "/">>}

\* 'im.tif', 'im.<run>.tif', 'im.<run>.<run>.tif' and 'im_u<run>_v<run>.tif'
SplitBases ==
    {<<"i", "m", ".", "t", "i", "f">>}
    \cup {<<"i", "m", ".">> \o r \o <<".", "t", "i", "f">> : r \in SplitRuns}
    \cup {<<"i", "m", ".">> \o r \o <<".">> \o s \o <<".", "t", "i", "f">> :
             r \in SplitRuns, s \in SplitRuns}
    \cup {<<"i", "m", "_", "u">> \o r \o <<"_", "v">> \o s
          \o <<".", "t", "i", "f">> : r \in SplitRuns, s \in SplitRuns}

SplitPaths == {dir \o base : dir \in SplitDirs, base \in SplitBases}

InitSplit ==
    /\ seq = None
    /\ other \in {CharsItem(chars, 0) : chars \in SplitPaths}
    /\ last = Call("init", "", FALSE)

\* other.get_formatted_path()
GetFormattedPath ==
    LET r == chars_get_formatted_path(other)
    IN /\ Heap(other.oid, r.self)
       /\ last' = [Call("get_formatted_path", r.err, FALSE)
                      EXCEPT !.args = <<r.out>>]

\* other.get_dimensions()
GetDimensions ==
    LET r == chars_get_dimensions(other)
    IN /\ Heap(other.oid, r.self)
       /\ last' = [Call("get_dimensions", r.err, FALSE)
                      EXCEPT !.args = <<r.out>>]

\* other.get_value()
GetValue ==
    LET r == chars_get_value(other)
    IN /\ Heap(other.oid, r.self)
       /\ last' = [Call("get_value", r.err, FALSE) EXCEPT !.args = <<r.out>>]

\* other.get_digits(as_type=str)
GetDigits ==
    LET r == chars_get_digits(other)
    IN /\ Heap(other.oid, r.self)
       /\ last' = [Call("get_digits", r.err, FALSE) EXCEPT !.args = <<r.out>>]

NextSplit == GetFormattedPath \/ GetDimensions \/ GetValue \/ GetDigits

SpecSplit == InitSplit /\ [][NextSplit]_vars

(***************************************************************************)
(* A fourteenth specification, for repr: seq is built dense or empty and   *)
(* takes ints and nested Sequences; other is a second Sequence that no     *)
(* object shares with seq.  repr is called on either, while INDENT stays   *)
(* within MaxIndent.  The argument kept of a repr call is its text.        *)
(***************************************************************************)
IndentValues == 0..MaxIndentVal

InitIndent ==
    \E s \in Values, e \in Values :
        /\ s <= e
        /\ seq = Sequence_init(TemplateA, s, e, {})
        /\ other = Sequence_init(TemplateA, 1, 2, Ids(seq))
        /\ last = Call("init", "", FALSE)

\* seq.add_in_place(v) for an int v.
IndentAddInt(v) ==
    LET r == add_in_place(seq, [k |-> "int", v |-> v], Live)
    IN /\ Nodes(r.self) <= MaxIndentNodes
       /\ Heap(seq.oid, r.self)
       /\ last' = Call("add_int", r.err, FALSE)

\* seq.add_in_place(Sequence(seq.template, s, e)) for s < e.
IndentAddSequence(s, e) ==
    LET r == add_in_place(seq, Sequence_init(seq.template, s, e, Live), Live)
    IN /\ s < e
       /\ Nodes(r.self) <= MaxIndentNodes
       /\ get_INDENT(r.self) <= MaxIndent
       /\ Heap(seq.oid, r.self)
       /\ last' = Call("add_sequence", r.err, FALSE)

\* repr(seq)
Repr ==
    LET r == Sequence_repr(seq)
    IN /\ get_INDENT(r.self) <= MaxIndent
       /\ Heap(seq.oid, r.self)
       /\ last' = [Call("repr", "", FALSE) EXCEPT !.args = <<r.out>>]

\* repr(other)
ReprOther ==
    LET r == Sequence_repr(other)
    IN /\ get_INDENT(r.self) <= MaxIndent
       /\ Heap(other.oid, r.self)
       /\ last' = [Call("repr_other", "", FALSE) EXCEPT !.args = <<r.out>>]

NextIndent ==
    \/ \E v \in IndentValues : IndentAddInt(v)
    \/ \E s \in IndentValues, e \in IndentValues : IndentAddSequence(s, e)
    \/ Repr
    \/ ReprOther

SpecIndent == InitIndent /\ [][NextIndent]_vars

(***************************************************************************)
(* A fifteenth specification, for the ordering of two Sequences that hold  *)
(* leaves: seq is built dense over 0..MaxOrderEnd and moved by set_start   *)
(* and set_end; other starts empty, takes ints and is moved by set_end.    *)
(***************************************************************************)
InitOrder ==
    /\ seq = Sequence_init(TemplateA, 0, MaxOrderEnd, {})
    /\ other = Sequence_init(TemplateA, 0, 0, Ids(seq))
    /\ last = Call("init", "", FALSE)

NextOrder ==
    \/ \E v \in Values : SetStart(v)
    \/ \E v \in Values : SetEnd(v)
    \/ \E v \in Values : OtherSetEnd(v)
    \/ \E v \in 0..MaxRangeInt : OtherAddIntRange(v)

SpecOrder == InitOrder /\ [][NextOrder]_vars

(***************************************************************************)
(* A sixteenth specification, for set_padding in every notation: seq is    *)
(* built dense over values of one and two digits in a template of any of   *)
(* the five notations, takes nested Sequences, and has its padding set,    *)
(* forced or not.                                                          *)
(***************************************************************************)
NotationTemplates ==
    {PoundTemplate("a", MaxNotationPad),
     PercentTemplate("a", 1, MaxNotationPad),
     DollarFTemplate("a", 0, MaxNotationPad),
     GlobTemplate("a"), AngularTemplate("a")}

InitNotation ==
    \E template \in NotationTemplates, s \in PadValues, e \in PadValues :
        /\ s <= e
        /\ seq = Sequence_init(template, s, e, {})
        /\ other = None
        /\ last = Call("init", "", FALSE)

\* seq.add_in_place(Sequence(seq.template, s, s))
NotationAddSequence(s) ==
    LET r == add_in_place(seq, Sequence_init(seq.template, s, s, Live), Live)
    IN /\ Nodes(r.self) <= MaxNotationNodes
       /\ get_INDENT(r.self) <= MaxRaiseIndent
       /\ Heap(seq.oid, r.self)
       /\ last' = Call("add_sequence", r.err, FALSE)

NextNotation ==
    \/ \E s \in PadValues : NotationAddSequence(s)
    \/ \E p \in PadWidths, force \in BOOLEAN : SetPadding(p, force)

SpecNotation == InitNotation /\ [][NextNotation]_vars

(***************************************************************************)
(* What the properties below observe: an object without its identities.    *)
(***************************************************************************)
RECURSIVE View(_)
View(obj) ==
    IF obj.k = "item" THEN [leaf |-> obj.path]
    ELSE [template |-> obj.template,
          start |-> get_start(obj), end |-> get_end(obj),
          items |-> [i \in DOMAIN obj.items |-> View(obj.items[i])]]

\* The leaf paths `after` are the leaf paths `before` with their digits
\* filled with zeros up to width p: exactly p digits unless the call was
\* forced, and never a zero before more than p digits.
LeavesPadded(before, after, p, force) ==
    /\ Len(after) = Len(before)
    /\ \A i \in DOMAIN after :
           /\ after[i].name = before[i].name
           /\ Len(after[i].digits) >= p
           /\ Len(after[i].digits) > p => after[i].digits[1] # 0
           /\ ~force => Len(after[i].digits) = p

\* The number of placeholders of a format string.
count_placeholders(format) ==
    Cardinality({i \in DOMAIN format : format[i] = Placeholder})

RECURSIVE str_format(_, _)
\* format.format(*args): every placeholder takes the next argument;
\* IndexError when the arguments run out.
str_format(format, args) ==
    IF Len(format) = 0 THEN [err |-> "", out |-> <<>>]
    ELSE IF Head(format) # Placeholder
    THEN LET rest == str_format(Tail(format), args)
         IN [err |-> rest.err, out |-> <<Head(format)>> \o rest.out]
    ELSE IF Len(args) = 0 THEN [err |-> "IndexError", out |-> <<>>]
    ELSE LET rest == str_format(Tail(format), Tail(args))
         IN [err |-> rest.err, out |-> Head(args) \o rest.out]

\* The first notation, in the order angular, dollar_f, glob, percent, pound,
\* whose validity predicate accepts the template; "None" when none does.
FirstInFixedOrder(template) ==
    LET fixed == <<"angular", "dollar_f", "glob", "percent", "pound">>
        valid == {i \in DOMAIN fixed : is_valid(fixed[i], template)}
    IN IF valid = {} THEN "None"
       ELSE fixed[CHOOSE i \in valid : \A j \in valid : i <= j]

\* The number of decimal digits of a non-negative int.
DecimalDigits(m) ==
    IF m < 10 THEN 1 ELSE IF m < 100 THEN 2 ELSE IF m < 1000 THEN 3 ELSE 4

\* The notations whose token states a padding.
Sensitive == {"pound", "percent", "dollar_f"}

\* set_type from notation a to notation b is given a padding exactly when
\* it needs one: from a token without padding to a token with padding.
PaddingWhenRequired(a, b, padding) ==
    (padding # NoPadding) <=> (a \notin Sensitive /\ b \in Sensitive)

\* The numeric ranges [start, end] of two objects have a value in common.
RangesIntersect(a, b) ==
    /\ get_range_point(a, "start") <= get_range_point(b, "end")
    /\ get_range_point(b, "start") <= get_range_point(a, "end")

\* A leaf of b has the path of a leaf of a.
SharesLeafPath(a, b) ==
    \E i \in DOMAIN flat_paths(a), j \in DOMAIN flat_paths(b) :
        flat_paths(a)[i] = flat_paths(b)[j]

OtherMutations == {"other_add_int", "other_set_value", "other_set_padding"}

(***************************************************************************)
(* C1: after any run of add_in_place calls on a Sequence that was built    *)
(* dense or empty, the leaves in flat iteration order have non-decreasing  *)
(* values.                                                                 *)
(***************************************************************************)
C1_FlatOrderSorted ==
    LET vs == flat_values(seq)
    IN \A i \in DOMAIN vs : \A j \in DOMAIN vs : i < j => vs[i] <= vs[j]

(***************************************************************************)
(* C2: after any run of add_in_place calls no two leaves of the Sequence   *)
(* have the same value and no two children have intersecting ranges.       *)
(***************************************************************************)
C2_NoDuplicateNoOverlap ==
    LET vs == flat_values(seq)
    IN /\ \A i \in DOMAIN vs : \A j \in DOMAIN vs : i # j => vs[i] # vs[j]
       /\ \A i \in DOMAIN seq.items : \A j \in DOMAIN seq.items :
              i # j => ~RangesIntersect(seq.items[i], seq.items[j])

(***************************************************************************)
(* C3: after any run of add_in_place calls, get_start() is the least and   *)
(* get_end() the greatest leaf value stored at any depth.                  *)
(***************************************************************************)
C3_RangeIsMinMaxLeaf ==
    LET vs == flat_values(seq)
    IN vs # <<>> => /\ get_start(seq) = SeqMin(vs)
                    /\ get_end(seq) = SeqMax(vs)

(***************************************************************************)
(* C4: Sequence(template, s, e) with 0 <= s <= e has the e-s+1 leaves      *)
(* s, s+1, ..., e, in that order.                                          *)
(***************************************************************************)
C4_DenseConstruction ==
    last.op = "new_sequence" =>
        LET s == last.args[1]
            e == last.args[2]
        IN flat_values(other) = [i \in 1..(e + 1 - s) |-> s + i - 1]

(***************************************************************************)
(* C5: seq.add_in_place(other), for a Sequence other of the same template  *)
(* whose range intersects the range of seq and that has a leaf path seq    *)
(* already holds, raises, and leaves the children, template, start and end *)
(* of seq as they were.                                                    *)
(***************************************************************************)
C5_OverlapRaisesAndKeeps ==
    [][(/\ last'.op = "add"
        /\ other.k = "seq"
        /\ has_matching_name(seq, other)
        /\ RangesIntersect(seq, other)
        /\ SharesLeafPath(seq, other))
       => (last'.err = "ValueError" /\ View(seq') = View(seq))]_vars

C5_Witness ==
    /\ last.op = "add"
    /\ last.err = "ValueError"
    /\ other.k = "seq"
    /\ RangesIntersect(seq, other)
    /\ SharesLeafPath(seq, other)
    /\ Len(seq.items) > 1

(***************************************************************************)
(* C6: what seq.add_in_place(other) stores shares no object with other,    *)
(* and once other was added, set_value, set_padding or add_in_place on     *)
(* other leaves the leaf paths, children, start and end of seq unchanged.  *)
(***************************************************************************)
C6_CopyIsolation ==
    /\ [](Ids(seq) \cap Ids(other) = {})
    /\ [][(last.given /\ last'.op \in OtherMutations)
          => View(seq') = View(seq)]_vars

C6_Witness ==
    /\ last.given
    /\ last.op \in OtherMutations
    /\ other.k = "item"
    /\ \E i \in DOMAIN seq.items :
           /\ seq.items[i].k = "item"
           /\ seq.items[i].path # other.path
           /\ seq.items[i].path.name = other.path.name

(***************************************************************************)
(* C7: a == b for two Sequences exactly when their flat leaf paths are the *)
(* same list, lengths included.                                            *)
(***************************************************************************)
C7_EqualIffSameLeafPaths ==
    other.k = "seq" =>
        (Sequence_eq(seq, other) <=> flat_paths(seq) = flat_paths(other))

(***************************************************************************)
(* C8: two SequenceItems are equal exactly when their paths are equal, so  *)
(* the caller's item equals a stored leaf of the same path and is `in` the *)
(* Sequence that stores such a leaf.                                       *)
(***************************************************************************)
C8_ItemsEqualByPath ==
    other.k = "item" =>
        /\ \A i \in DOMAIN as_range_flat(seq) :
               item_eq(as_range_flat(seq)[i], other)
                   <=> as_range_flat(seq)[i].path = other.path
        /\ Sequence_contains_dunder(seq, other)
               <=> \E i \in DOMAIN seq.items :
                       /\ seq.items[i].k = "item"
                       /\ seq.items[i].path = other.path

(***************************************************************************)
(* C9: for Sequences a and b that hold leaves, reached by construction,    *)
(* add_in_place, set_start and set_end, a < b exactly when                 *)
(* a.get_end() < b.get_start(), and a > b exactly when b < a.              *)
(***************************************************************************)
C9_LessIffEndBeforeStart ==
    (as_range_flat(seq) # <<>> /\ as_range_flat(other) # <<>>)
    => /\ Sequence_lt(seq, other) <=> get_end(seq) < get_start(other)
       /\ Sequence_lt(other, seq) <=> get_end(other) < get_start(seq)
       /\ Sequence_gt(seq, other) <=> Sequence_lt(other, seq)
       /\ Sequence_gt(other, seq) <=> Sequence_lt(seq, other)

(***************************************************************************)
(* C10: when a.fits(b) is true, a.add_in_place(b) raises nothing and every *)
(* leaf of b is a leaf of a afterwards.                                    *)
(***************************************************************************)
C10_FitsThenAddSucceeds ==
    [][(last'.op = "add" /\ other.k = "seq" /\ fits(seq, other))
       => /\ last'.err = ""
          /\ \A i \in DOMAIN flat_paths(other) :
                 \E j \in DOMAIN flat_paths(seq') :
                     flat_paths(seq')[j] = flat_paths(other)[i]]_vars

(***************************************************************************)
(* C11: for a Sequence with leaves whose greatest value is m,               *)
(* set_padding(p) without force raises when p is less than the number of   *)
(* decimal digits of m, and then leaves the template and every leaf path   *)
(* as they were; it does not raise when p is at least that number; with    *)
(* force=True it never raises.                                             *)
(***************************************************************************)
C11_PaddingTooLowRaises ==
    [][(last'.op = "set_padding" /\ as_range_flat(seq) # <<>>)
       => LET p == last'.args[1]
              force == last'.args[2]
              needed == DecimalDigits(SeqMax(flat_values(seq)))
          IN /\ (~force /\ p < needed)
                  => /\ last'.err = "ValueError"
                     /\ seq'.template = seq.template
                     /\ flat_paths(seq') = flat_paths(seq)
             /\ (~force /\ p >= needed) => last'.err = ""
             /\ force => last'.err = ""]_vars

C11_Witness ==
    /\ last.op = "set_padding"
    /\ last.err = "ValueError"
    /\ last.args = <<2, FALSE>>
    /\ SeqMax(flat_values(seq)) = BigVal
    /\ \E i \in DOMAIN seq.items : seq.items[i].k = "seq"

(***************************************************************************)
(* C12: after a set_padding(p) that did not raise, the digit token of the   *)
(* template has width p, every leaf, at any depth, has the digits of its   *)
(* value filled with zeros up to width p (exactly p digits when the call   *)
(* was not forced), and the values of the leaves, their order and their    *)
(* number are as before.                                                   *)
(***************************************************************************)
C12_PaddingApplied ==
    [][(last'.op = "set_padding" /\ last'.err = "")
       => /\ seq'.template.pad = last'.args[1]
          /\ seq'.template.type = seq.template.type
          /\ LeavesPadded(flat_paths(seq), flat_paths(seq'), last'.args[1],
                          last'.args[2])
          /\ flat_values(seq') = flat_values(seq)]_vars

(***************************************************************************)
(* C12, as the code has it: after a set_padding(p) that did not raise, the  *)
(* digit token of a template whose notation writes a width (pound,         *)
(* percent, dollar_f) has width p, and a template whose notation writes    *)
(* none (glob, angular) is the template of before the call; in every       *)
(* notation every leaf, at any depth, has the digits of its value filled   *)
(* with zeros up to width p (exactly p digits when the call was not        *)
(* forced), and the values of the leaves, their order and their number are *)
(* as before.                                                              *)
(***************************************************************************)
C12_PaddingAppliedWhereWritten ==
    [][(last'.op = "set_padding" /\ last'.err = "")
       => /\ (REPR_SEQUENCES[seq.template.type].padding_case = "sensitive"
                => seq'.template.pad = last'.args[1])
          /\ (REPR_SEQUENCES[seq.template.type].padding_case = "insensitive"
                => seq'.template = seq.template)
          /\ seq'.template.type = seq.template.type
          /\ seq'.template.name = seq.template.name
          /\ LeavesPadded(flat_paths(seq), flat_paths(seq'), last'.args[1],
                          last'.args[2])
          /\ flat_values(seq') = flat_values(seq)]_vars

C12_Witness ==
    /\ last.op = "set_padding"
    /\ last.err = ""
    /\ last.args = <<3, FALSE>>
    /\ seq.template = GlobTemplate("a")
    /\ \E i \in DOMAIN seq.items :
           /\ seq.items[i].k = "seq"
           /\ \E j \in DOMAIN seq.items[i].items :
                  seq.items[i].items[j].path.digits = <<0, 1, 0>>
    /\ \E i \in DOMAIN seq.items :
           /\ seq.items[i].k = "item"
           /\ seq.items[i].path.digits = <<0, 0, 9>>

(***************************************************************************)
(* C13: set_type without a padding, from one of the notations pound,       *)
(* percent and dollar_f to another of them, does not raise, gives the      *)
(* template the token of the new notation with the same width, and leaves  *)
(* every leaf path as it was.                                              *)
(***************************************************************************)
C13_SetTypeKeepsWidth ==
    [][(/\ last'.op = "set_type"
        /\ last'.args[2] = NoPadding
        /\ seq.template.type \in Sensitive
        /\ last'.args[1] \in Sensitive)
       => /\ last'.err = ""
          /\ seq'.template.type = last'.args[1]
          /\ seq'.template.pad = seq.template.pad
          /\ seq'.template.name = seq.template.name
          /\ flat_paths(seq') = flat_paths(seq)]_vars

(***************************************************************************)
(* C14: for notations A and B and a template t of notation A, on a         *)
(* Sequence with leaves, set_type to B and then set_type back to A, each   *)
(* given a padding exactly when it needs one (the padding of t on the way  *)
(* back), raise nothing and end with the template t.                       *)
(***************************************************************************)
C14_SetTypeRoundTrip ==
    [][(/\ as_range_flat(seq) # <<>>
        /\ last.op = "set_type"
        /\ last'.op = "set_type"
        /\ PaddingWhenRequired(last.args[3].type, last.args[1], last.args[2])
        /\ last'.args[1] = last.args[3].type
        /\ PaddingWhenRequired(last.args[1], last'.args[1], last'.args[2])
        /\ last'.args[2] \in {NoPadding, last.args[3].pad})
       => /\ last.err = ""
          /\ last'.err = ""
          /\ seq'.template = last.args[3]]_vars

(***************************************************************************)
(* C15: item.set_value(v, position=p) for a position p of the item, or     *)
(* without a position on an item of one digit run (p is then 0), raises    *)
(* nothing; afterwards the run at p has the value v, and the width it had  *)
(* when v fits in that width; every other run has the digits it had, and   *)
(* every non-digit part is as it was.                                      *)
(***************************************************************************)
C15_SetValueFrame ==
    [][(/\ last'.op = "set_value"
        /\ Len(last'.args[1]) = 1
        /\ \/ /\ ~last'.args[2].none
              /\ Len(last'.args[2].at) = 1
              /\ last'.args[2].at[1] >= 0
              /\ last'.args[2].at[1] < parts_get_dimensions(other)
           \/ /\ last'.args[2].none
              /\ parts_get_dimensions(other) = 1)
       => LET v == last'.args[1][1]
              p == IF last'.args[2].none THEN 0 ELSE last'.args[2].at[1]
              before == parts_get_digits(other)
              after == parts_get_digits(other')
              parts == other.path.parts
              parts_after == other'.path.parts
          IN /\ last'.err = ""
             /\ Len(after) = Len(before)
             /\ int_str(after[p + 1]) = v
             /\ DecimalDigits(v) <= Len(before[p + 1])
                  => Len(after[p + 1]) = Len(before[p + 1])
             /\ \A i \in DOMAIN before : i # p + 1 => after[i] = before[i]
             /\ Len(parts_after) = Len(parts)
             /\ \A i \in DOMAIN parts :
                    /\ isdigit(parts_after[i]) <=> isdigit(parts[i])
                    /\ ~isdigit(parts[i]) => parts_after[i] = parts[i]]_vars

C15_Witness ==
    /\ last.op = "set_value"
    /\ last.err = ""
    /\ last.args = <<(<<1>>), Position(<<1>>)>>
    /\ parts_get_digits(other) = <<(<<1, 2>>), (<<0, 1>>)>>

(***************************************************************************)
(* C16: item.promote_to_sequence(path) raises when the two paths differ    *)
(* outside their digit run, raises when the two values are equal, and      *)
(* otherwise returns a Sequence whose get_start() is the lesser and whose  *)
(* get_end() the greater of the two values; item.path is never changed.    *)
(***************************************************************************)
C16_PromoteToSequence ==
    [][last'.op = "promote"
       => LET path == last'.args[1]
              mine == item_get_value(other)
              theirs == int_str(path.digits)
          IN /\ other'.path = other.path
             /\ path.name # other.path.name => last'.err # ""
             /\ (path.name = other.path.name /\ mine = theirs)
                  => last'.err # ""
             /\ (path.name = other.path.name /\ mine # theirs)
                  => /\ last'.err = ""
                     /\ seq'.k = "seq"
                     /\ get_start(seq') = Min2(mine, theirs)
                     /\ get_end(seq') = Max2(mine, theirs)]_vars

(***************************************************************************)
(* C17: for start, end >= 0 and width >= 1, UdimBaseIterator(start, end,   *)
(* width) yields exactly the values (v // width) * 100 + v % width for the *)
(* integers v with min(start, end) <= v < max(start, end), in increasing   *)
(* order of v; a negative start raises.                                    *)
(***************************************************************************)
C17_UdimBaseValues ==
    /\ (last.op = "iter" /\ other.cls = "base")
         => LET start == other.given[1]
                end == other.given[2]
                width == other.given[3]
                lo == Min2(start, end)
                hi == Max2(start, end)
                out == last.args[1]
            IN /\ start >= 0 /\ end >= 0
               /\ Len(out) = hi - lo
               /\ \A i \in 1..(hi - lo) :
                      out[i] = (((lo + i - 1) \div width) * 100)
                                 + ((lo + i - 1) % width)
    /\ (last.op \in {"udim_base", "udim_base_default"} /\ last.args[1] < 0)
         => last.err # ""
    /\ (/\ last.op \in {"udim_base", "udim_base_default"}
        /\ last.args[1] >= 0
        /\ last.args[2] >= 0)
         => last.err = ""

C17_Witness ==
    /\ last.op = "iter"
    /\ other.cls = "base"
    /\ other.given = <<7, 2, 3>>
    /\ last.args[1] = <<2, 100, 101, 102, 200>>

(***************************************************************************)
(* C18: UdimBaseIterator(0, 10) yields the eleven values 0, 1, ..., 9,     *)
(* 100.                                                                    *)
(***************************************************************************)
C18_UdimCarryIncluded ==
    (last.op = "iter" /\ other.cls = "base"
       /\ other.given = <<0, 10, DefaultWidth>>)
        => last.args[1] = <<0, 1, 2, 3, 4, 5, 6, 7, 8, 9, 100>>

(***************************************************************************)
(* C18, as the code has it: the end is not part of the output, so          *)
(* UdimBaseIterator(0, 10) yields the ten values 0, 1, ..., 9, and         *)
(* UdimBaseIterator(0, 11) yields the eleven values 0, 1, ..., 9, 100:     *)
(* the value after 9 is 100.                                               *)
(***************************************************************************)
C18_UdimCarryAtEleven ==
    /\ (last.op = "iter" /\ other.cls = "base"
          /\ other.given = <<0, 10, DefaultWidth>>)
         => last.args[1] = <<0, 1, 2, 3, 4, 5, 6, 7, 8, 9>>
    /\ (last.op = "iter" /\ other.cls = "base"
          /\ other.given = <<0, 11, DefaultWidth>>)
         => last.args[1] = <<0, 1, 2, 3, 4, 5, 6, 7, 8, 9, 100>>

C18_Witness ==
    /\ last.op = "iter"
    /\ other.cls = "base"
    /\ other.given = <<0, 11, DefaultWidth>>
    /\ Len(last.args[1]) = 11
    /\ last.args[1][10] = 9
    /\ last.args[1][11] = 100

(***************************************************************************)
(* C19: for every width w >= 1 and pairs (x0, y0), (x1, y1) with           *)
(* 0 <= y0, y1 < w and x0*w + y0 <= x1*w + y1, UdimIterator2D(start=(x0,   *)
(* y0), end=(x1, y1), width=w) yields, in order, the pair (v // w, v % w)  *)
(* for every v from x0*w + y0 up to but excluding x1*w + y1.               *)
(***************************************************************************)
C19_Udim2DCountsInBaseWidth ==
    (last.op = "iter" /\ other.cls = "2d")
        => LET w == other.given[3]
               from == other.given[1][1] * w + other.given[1][2]
               to == other.given[2][1] * w + other.given[2][2]
               out == last.args[1]
           IN from <= to
                => /\ Len(out) = to - from
                   /\ \A i \in 1..(to - from) :
                          out[i] = <<(from + i - 1) \div w,
                                     (from + i - 1) % w>>

(***************************************************************************)
(* C20: Sequence(paths), for paths of one template (one name, one width)   *)
(* and of values above 0, has exactly the given paths as its flat leaves,  *)
(* in the order of their values: every given path is a leaf and every leaf *)
(* is a given path, also when the values have gaps.                        *)
(***************************************************************************)
C20_ListGivesExactlyItsPaths ==
    LET paths == last.args[1]
        leaves == flat_paths(seq)
        values == flat_values(seq)
    IN (/\ last.op = "new_from_list"
        /\ \A i \in DOMAIN paths :
               /\ Len(paths[i].digits) = Len(paths[1].digits)
               /\ int_str(paths[i].digits) > 0)
        => /\ {leaves[i] : i \in DOMAIN leaves}
                = {paths[i] : i \in DOMAIN paths}
           /\ \A i \in DOMAIN values : \A j \in DOMAIN values :
                  i < j => values[i] < values[j]

(***************************************************************************)
(* C21: Sequence(paths) takes the name and the padding of its template     *)
(* from the first path when all paths have one digit width, and has the    *)
(* padding-insensitive glob notation when the widths of the paths differ.  *)
(***************************************************************************)
C21_MixedWidthsGiveGlob ==
    LET paths == last.args[1]
        same_width == \A i \in DOMAIN paths :
                          Len(paths[i].digits) = Len(paths[1].digits)
    IN last.op = "new_from_list"
        => /\ seq.template.name = paths[1].name
           /\ same_width
                  => seq.template
                         = PoundTemplate(paths[1].name, Len(paths[1].digits))
           /\ ~same_width => seq.template.type = "glob"

(***************************************************************************)
(* C22: in every notation and for every int n >= 0, add_in_place(str(n))   *)
(* leaves the Sequence as add_in_place(n) would: it raises nothing, the    *)
(* leaves are the leaves before the call and one more, whose path is the   *)
(* format string of the Sequence rendered with n, and children, start and  *)
(* end are those that add_in_place(n) gives from the same state.           *)
(***************************************************************************)
C22_StrAddedAsInt ==
    [][last'.op = "add_str"
        => LET n == last'.args[1]
               rendered == format_path_format(get_format_path(seq), n)
               before == flat_paths(seq)
               after == flat_paths(seq')
               as_int == add_in_place(seq, [k |-> "int", v |-> n], Live)
           IN /\ last'.err = ""
              /\ \E position \in 0..Len(before) :
                     after = list_insert(before, position, rendered)
              /\ as_int.err = ""
              /\ View(seq') = View(as_int.self)]_vars

(***************************************************************************)
(* C23: make_sequence(template, start, end) returns a Sequence when the    *)
(* template has one placeholder and a SequenceMultiDimensional when it has *)
(* two or more, in every notation, and raises when, and only when, the     *)
(* template has no placeholder.                                            *)
(***************************************************************************)
C23_MakeSequenceByPlaceholders ==
    LET template == last.args[1]
        placeholders ==
            Cardinality({i \in DOMAIN template.base :
                            template.base[i].type \in Notations})
    IN last.op = "make_sequence"
        => /\ placeholders = 0 <=> last.err # ""
           /\ placeholders = 1 => class_of(seq) = "Sequence"
           /\ placeholders > 1
                  => class_of(seq) = "SequenceMultiDimensional"

(***************************************************************************)
(* C24: list(seq.as_range('bounds')) raises nothing and yields one element *)
(* for every integer from get_start() to get_end(), both included,         *)
(* whatever children are stored; it leaves seq as it was; a second call    *)
(* yields the same elements.                                               *)
(***************************************************************************)
C24_BoundsYieldDenseRange ==
    [][last'.op = "as_range_bounds"
        => LET start == get_start(seq)
               end == get_end(seq)
           IN /\ last'.err = ""
              /\ last'.args[1] = [i \in 1..(end + 1 - start) |->
                                     start + i - 1]
              /\ seq' = seq
              /\ last.op = "as_range_bounds" => last'.args = last.args]_vars

(***************************************************************************)
(* C25: add_in_place, insert, set_padding and set_type succeed or leave    *)
(* the receiver as it was: after a call that raised, the template (and so  *)
(* the notation), the children, the leaf paths and start and end are those *)
(* of before the call; so for set_type with a padding that set_padding     *)
(* rejects as too low.                                                     *)
(***************************************************************************)
C25_RaisingCallsChangeNothing ==
    [][last'.err # "" => View(seq') = View(seq)]_vars

(***************************************************************************)
(* C26: get_repr_container(template) returns the first notation, in the    *)
(* fixed order angular, dollar_f, glob, percent, pound, whose validity     *)
(* predicate accepts the template, and no notation when none accepts it;   *)
(* two calls in a row on one template return the same.                     *)
(***************************************************************************)
C26_FirstValidInFixedOrder ==
    [][last'.op = "get_repr_container"
        => /\ last'.args[2] = FirstInFixedOrder(last'.args[1])
           /\ (last.op = "get_repr_container"
                 /\ last.args[1] = last'.args[1])
                  => last'.args[2] = last.args[2]]_vars

(***************************************************************************)
(* C27: after del seq[i] that leaves children, get_start() is the least    *)
(* start value and get_end() the greatest end value among the remaining    *)
(* children, so deleting the child that was the start or the end changes   *)
(* the bound reported.                                                     *)
(***************************************************************************)
C27_DeleteRecalculatesRange ==
    (last.op = "delitem" /\ last.err = "" /\ seq.items # <<>>)
        => LET starts == [i \in DOMAIN seq.items |->
                             get_range_point(seq.items[i], "start")]
               ends == [i \in DOMAIN seq.items |->
                           get_range_point(seq.items[i], "end")]
           IN /\ get_start(seq) = SeqMin(starts)
              /\ get_end(seq) = SeqMax(ends)

(***************************************************************************)
(* C28: seq.add_in_place(x), for an int or a SequenceItem x, stores x just *)
(* before the first direct child whose value (start value for a nested     *)
(* Sequence) exceeds the value of x, or after all children when none does, *)
(* also when earlier children are nested Sequences of several leaves; the  *)
(* children that were there keep their order.                              *)
(***************************************************************************)
C28_StoredBeforeFirstGreaterChild ==
    [][(last'.op \in {"add_int", "add_item"} /\ last'.err = "")
        => LET v == last'.args[1]
               before == [i \in DOMAIN seq.items |-> View(seq.items[i])]
               after == [i \in DOMAIN seq'.items |-> View(seq'.items[i])]
               greater == {i \in DOMAIN seq.items :
                              get_range_point(seq.items[i], "start") > v}
               position == IF greater = {} THEN Len(seq.items)
                           ELSE (CHOOSE i \in greater :
                                     \A j \in greater : i <= j) - 1
               x == [leaf |-> format_path_format(get_format_path(seq), v)]
           IN after = list_insert(before, position, x)]_vars

(***************************************************************************)
(* C29: for every SequenceItem whose path has a digit token, here one in   *)
(* its basename, with or without digit runs in a directory: once one of    *)
(* the getters has been called, get_formatted_path() has exactly           *)
(* get_dimensions() placeholders, get_value() gives exactly                *)
(* get_dimensions() values, and the formatted path filled with the item's  *)
(* digit strings in order is the path again.                               *)
(***************************************************************************)
C29_PlaceholdersDimensionsValuesAgree ==
    (/\ last.op \in {"get_formatted_path", "get_dimensions", "get_value",
                    "get_digits"}
     /\ \E choice \in {"dot", "uv"} : get_value_using(other, choice).err = "")
    => LET format == chars_get_formatted_path(other)
           dimensions == chars_get_dimensions(other)
           value == chars_get_value(other)
           digits == chars_get_digits(other)
           filled == str_format(format.out, digits.out)
       IN /\ format.err = "" /\ dimensions.err = "" /\ value.err = ""
          /\ digits.err = ""
          /\ count_placeholders(format.out) = dimensions.out
          /\ Len(value.out) = dimensions.out
          /\ filled.err = "" /\ filled.out = other.path.chars

(***************************************************************************)
(* C30: repr leaves no state behind that affects later calls: after        *)
(* repr(seq), the next repr(seq) would return the text this call returned, *)
(* also when seq holds nested Sequences, and the text of repr(other) is    *)
(* what it was before; the same for repr(other).                           *)
(***************************************************************************)
C30_ReprLeavesNoState ==
    [][/\ last'.op = "repr"
          => /\ Sequence_repr(seq').out = last'.args[1]
             /\ Sequence_repr(other').out = Sequence_repr(other).out
       /\ last'.op = "repr_other"
          => /\ Sequence_repr(other').out = last'.args[1]
             /\ Sequence_repr(seq').out = Sequence_repr(seq).out]_vars

====
